---- MODULE Spec2Model ----
(***************************************************************************)
(* Model of the wiki server of src/mcp_servers/stardew_wiki_mcp.py: the     *)
(* retrieval engine (WikiCache, RateLimiter, retry_on_network_error,       *)
(* WikiClient.get_page, search and smart_search, preprocess_query,         *)
(* detect_page_type), the page extractors behind parse_page_data, the      *)
(* get_page_data tool, and get_page called by concurrent threads.          *)
(*                                                                         *)
(* Time is counted in whole seconds: `now` is the value time.time() would  *)
(* return.  Strings that are case-normalised are sequences of character    *)
(* codes, everything else that is only stored and compared is a string.    *)
(* Python's None is the empty tuple <<>>, a present value v is <<v>>.      *)
(***************************************************************************)
EXTENDS Integers, Sequences, FiniteSets, TLC

\* ---------------------------------------------------------------- bounds
MaxCap == 2            \* largest max_size a cache is constructed with
MaxTtl == 1            \* largest ttl_seconds a cache is constructed with
MaxInterval == 2       \* largest min_interval (seconds) of a rate limiter
Horizon == 3           \* seconds of wall-clock time that are explored around a client or limiter
CacheHorizon == 2      \* seconds of wall-clock time that are explored around a bare cache
MaxLookups == 2        \* cache lookups explored between two clear() calls
NumThreads == 2        \* callers sharing one RateLimiter
MaxCalls == 3          \* wait_if_needed calls explored per caller
MaxWaits == 2          \* wait_if_needed calls explored per caller under fair scheduling

\* time.time() at construction: far from the 0.0 that last_request_time
\* starts with, so the first wait_if_needed never sleeps
StartTime == MaxInterval + 1
EndTime == StartTime + Horizon

Threads == 1..NumThreads
\* get_page is called by one caller at a time
ClientThreads == {t \in Threads : \A u \in Threads : t <= u}

\* ------------------------------------------------------------ str.lower()
LowerChar(c) == IF c \in 65..90 THEN c + 32 ELSE c
Lower(s) == [i \in DOMAIN s |-> LowerChar(s[i])]

\* keys given to a cache, as character codes: "A", "a", "b", "c"
Titles == {<<65>>, <<97>>, <<98>>, <<99>>}
\* titles requested through the client: "A", "a", "b"
PageTitles == {<<65>>, <<97>>, <<98>>}
\* values stored directly in a cache
Values == {"value1", "value2"}

\* the keys those titles are cached under
CacheKeys == {Lower(s) : s \in PageTitles}

None == <<>>
Some(v) == <<v>>

VARIABLES
    now,                \* time.time()
    cache,              \* WikiCache.cache: insertion-ordered dict, as a sequence of entries
    ttl_seconds,        \* WikiCache.ttl_seconds
    max_size,           \* WikiCache.max_size
    hits,               \* WikiCache.hits
    misses,             \* WikiCache.misses
    ret,                \* the key and the return value of the last direct get()
    tracked,            \* since construction / clear(): only set() calls with pairwise distinct keys, nothing expired
    setLog,             \* while tracked: keys and values of those set() calls, in order
    purged,             \* some get() removed an expired entry since construction / clear()
    min_interval,       \* RateLimiter.min_interval
    last_request_time,  \* RateLimiter.last_request_time
    lock,               \* RateLimiter.lock: 0 when free, else the holding thread
    pc,                 \* per thread: position in wait_if_needed / get_page
    wake,               \* per thread: time at which its time.sleep() returns
    page_title,         \* per thread: argument of the running get_page
    attempt,            \* per thread: loop variable of the retry wrapper
    last_exception,     \* per thread: last_exception of the retry wrapper
    requests_made,      \* per thread: session.get calls of the running get_page
    limiter_calls,      \* per thread: wait_if_needed calls of the running get_page
    delays,             \* per thread: backoff delays slept by the running get_page
    raised,             \* per thread: the exceptions session.get raised in the running get_page
    data,               \* per thread: what _make_api_request returned to get_page
    got_error,          \* per thread: error payloads the running get_page received
    result,             \* per thread: what get_page returned
    from_cache,         \* per thread: the running get_page was answered by the cache
    cache_at_call,      \* per thread: the cache when the running get_page was issued
    fetched,            \* per cache key: the result of the last get_page that fetched it
    forced,             \* consecutive failing responses the network still gives (at most max_retries matter)
    running,            \* per thread: the WikiClient method it is in
    network_error,      \* per thread: the NetworkError the retry wrapper raised
    escaped,            \* per thread: the exception that left _make_api_request uncaught by the wrapper
    thrown,             \* per thread: the exception the method raised to its caller
    query,              \* argument of the running search / smart_search / preprocess_query
    limit,              \* argument of the running search / smart_search
    search_terms,       \* smart_search: the list preprocess_query returned
    strategy_index,     \* smart_search: number of candidate terms already tried
    params,             \* search: the API parameters it built
    searched,           \* the search() calls of the running method: term and returned result
    page_categories,    \* detect_page_type: its categories argument
    page_name,          \* detect_page_type: its page_title argument
    page_type,          \* what detect_page_type returned
    markup,             \* the page an extractor is given: what of its BeautifulSoup tree the extractor depends on
    events,             \* what the extractions did so far, in order
    local,              \* per thread: local variables of the cache method it is in
    released,           \* wait_if_needed calls completed
    first_release       \* time at which the first of them completed

cacheVars == <<cache, ttl_seconds, max_size, hits, misses>>
directVars == <<ret, tracked, setLog, purged>>
limiterVars == <<min_interval, last_request_time, lock>>
callVars == <<page_title, attempt, last_exception, requests_made, limiter_calls,
              delays, raised, data, got_error, result, from_cache, cache_at_call,
              fetched, forced, running, network_error, escaped, thrown>>
searchArgs == <<query, limit, search_terms, strategy_index, params>>
searchVars == <<searchArgs, searched>>
parseVars == <<markup, events, local>>
classVars == <<page_categories, page_name, page_type, parseVars>>
limiterLog == <<released, first_release>>
vars == <<now, cacheVars, directVars, limiterVars, limiterLog, pc, wake, callVars,
          searchVars, classVars>>

\* ----------------------------------------------------- dict (insertion-ordered)
DictHas(d, k) == \E i \in 1..Len(d) : d[i].key = k
DictIndex(d, k) == CHOOSE i \in 1..Len(d) : d[i].key = k
DictGet(d, k) == d[DictIndex(d, k)]
DictDel(d, k) == SelectSeq(d, LAMBDA e : e.key # k)
DictPut(d, k, v, ts) ==
    LET e == [key |-> k, value |-> v, timestamp |-> ts]
    IN  IF DictHas(d, k) THEN [d EXCEPT ![DictIndex(d, k)] = e] ELSE Append(d, e)
DictKeys(d) == {d[i].key : i \in 1..Len(d)}

\* ----------------------------------------------------------- WikiCache
\* WikiCache.get: the returned value and the cache state it leaves
get_keep_expired(c, h, m, key) ==
    LET key_lower == Lower(key)
    IN  IF DictHas(c, key_lower)
        THEN LET e == DictGet(c, key_lower)
                 age_seconds == now - e.timestamp
             IN  IF age_seconds < ttl_seconds
                 THEN [ret |-> Some(e.value), cache |-> c, hits |-> h + 1, misses |-> m]
                 ELSE [ret |-> Some(e.value), cache |-> c, hits |-> h + 1, misses |-> m]
        ELSE [ret |-> None, cache |-> c, hits |-> h, misses |-> m + 1]

get_case_sensitive(c, h, m, key) ==
    IF DictHas(c, key)
    THEN LET e == DictGet(c, key)
             age_seconds == now - e.timestamp
         IN  IF age_seconds < ttl_seconds
             THEN [ret |-> Some(e.value), cache |-> c, hits |-> h + 1, misses |-> m]
             ELSE [ret |-> None, cache |-> DictDel(c, key),
                   hits |-> h, misses |-> m + 1]
    ELSE [ret |-> None, cache |-> c, hits |-> h, misses |-> m + 1]

get(c, h, m, key) ==
    LET key_lower == Lower(key)
    IN  IF DictHas(c, key_lower)
        THEN LET e == DictGet(c, key_lower)
                 age_seconds == now - e.timestamp
             IN  IF age_seconds < ttl_seconds
                 THEN [ret |-> Some(e.value), cache |-> c, hits |-> h + 1, misses |-> m]
                 ELSE [ret |-> None, cache |-> DictDel(c, key_lower),
                       hits |-> h, misses |-> m + 1]
        ELSE [ret |-> None, cache |-> c, hits |-> h, misses |-> m + 1]

\* WikiCache.set: the cache it leaves
set_no_eviction(c, key, value) ==
    DictPut(c, Lower(key), value, now)

set_evict_newest(c, key, value) ==
    LET key_lower == Lower(key)
        kept == IF Len(c) >= max_size /\ ~DictHas(c, key_lower)
                THEN SubSeq(c, 1, Len(c) - 1)
                ELSE c
    IN  DictPut(kept, key_lower, value, now)

\* set that first sweeps out what has expired
set_sweep_expired(c, key, value) ==
    LET key_lower == Lower(key)
        live == SelectSeq(c, LAMBDA e : now - e.timestamp < ttl_seconds \/ e.key = key_lower)
        kept == IF Len(live) >= max_size /\ ~DictHas(live, key_lower)
                THEN DictDel(live, live[1].key)
                ELSE live
    IN  DictPut(kept, key_lower, value, now)

\* set that moves a key it overwrites to the end of the dictionary
set_reinsert(c, key, value) ==
    LET key_lower == Lower(key)
        kept == IF Len(c) >= max_size /\ ~DictHas(c, key_lower)
                THEN DictDel(c, c[1].key)
                ELSE c
    IN  DictPut(DictDel(kept, key_lower), key_lower, value, now)

set(c, key, value) ==
    LET key_lower == Lower(key)
        kept == IF Len(c) >= max_size /\ ~DictHas(c, key_lower)
                THEN DictDel(c, c[1].key)     \* next(iter(self.cache))
                ELSE c
    IN  DictPut(kept, key_lower, value, now)

\* ------------------------------------------------- direct use of a WikiCache
CacheGet(key) ==
    /\ hits + misses < MaxLookups
    /\ LET r == get(cache, hits, misses, key)
       IN  /\ cache' = r.cache
           /\ hits' = r.hits
           /\ misses' = r.misses
           /\ ret' = <<key, r.ret>>
           /\ purged' = (purged \/ Len(r.cache) < Len(cache))
           /\ tracked' = (tracked /\ Len(r.cache) = Len(cache))
           /\ setLog' = IF tracked' THEN setLog ELSE <<>>
    /\ UNCHANGED <<now, searchVars, classVars, ttl_seconds, max_size, limiterVars, pc, wake, callVars, limiterLog>>

CacheSet(key, value) ==
    /\ cache' = set(cache, key, value)
    /\ tracked' = (tracked /\ \A i \in 1..Len(setLog) : setLog[i].key # Lower(key))
    /\ setLog' = IF tracked'
                 THEN Append(setLog, [key |-> Lower(key), value |-> value])
                 ELSE <<>>
    /\ ret' = None
    /\ UNCHANGED <<now, searchVars, classVars, ttl_seconds, max_size, hits, misses, purged, limiterVars,
                   pc, wake, callVars, limiterLog>>

CacheClear ==
    /\ cache' = <<>>
    /\ hits' = 0
    /\ misses' = 0
    /\ tracked' = TRUE
    /\ setLog' = <<>>
    /\ purged' = FALSE
    /\ ret' = None
    /\ UNCHANGED <<now, searchVars, classVars, ttl_seconds, max_size, limiterVars, pc, wake, callVars, limiterLog>>

\* the clock advances, up to `end`
Tick(end) ==
    /\ now < end
    /\ now' = now + 1
    /\ UNCHANGED <<cacheVars, directVars, limiterVars, pc, wake, callVars, limiterLog,
                   searchVars, classVars>>

\* ------------------------------------------------------------------ Init
InitClock ==
    /\ now = StartTime
    /\ hits = 0
    /\ misses = 0
    /\ ret = None
    /\ tracked = TRUE
    /\ setLog = <<>>
    /\ purged = FALSE
    /\ last_request_time = 0
    /\ lock = 0
    /\ pc = [t \in Threads |-> "idle"]
    /\ wake = [t \in Threads |-> 0]
    /\ page_title = [t \in Threads |-> <<>>]
    /\ attempt = [t \in Threads |-> 0]
    /\ last_exception = [t \in Threads |-> None]
    /\ requests_made = [t \in Threads |-> 0]
    /\ limiter_calls = [t \in Threads |-> 0]
    /\ delays = [t \in Threads |-> <<>>]
    /\ raised = [t \in Threads |-> <<>>]
    /\ data = [t \in Threads |-> None]
    /\ got_error = [t \in Threads |-> 0]
    /\ result = [t \in Threads |-> None]
    /\ from_cache = [t \in Threads |-> FALSE]
    /\ cache_at_call = [t \in Threads |-> <<>>]
    /\ forced = 0
    /\ fetched = [k \in CacheKeys |-> None]
    /\ released = 0
    /\ first_release = 0
    /\ running = [t \in Threads |-> None]
    /\ network_error = [t \in Threads |-> None]
    /\ escaped = [t \in Threads |-> None]
    /\ thrown = [t \in Threads |-> None]
    /\ limit = 0
    /\ search_terms = <<>>
    /\ strategy_index = 0
    /\ params = None
    /\ searched = <<>>
    /\ page_type = None
    /\ events = <<>>
    /\ local = [t \in Threads |-> None]

InitCommon ==
    /\ cache = <<>>
    /\ InitClock

\* no text is being processed
InitNoText ==
    /\ query = ""
    /\ page_categories = <<>>
    /\ page_name = ""
    /\ markup = None

\* WikiCache(ttl_seconds, max_size) used on its own by a single caller
InitCache ==
    /\ InitCommon
    /\ InitNoText
    /\ ttl_seconds \in 1..MaxTtl
    /\ max_size \in 1..MaxCap
    /\ min_interval = 1

NextCache ==
    \/ \E key \in Titles : CacheGet(key)
    \/ \E key \in Titles, value \in Values : CacheSet(key, value)
    \/ CacheClear
    \/ Tick(StartTime + CacheHorizon)

SpecCache == InitCache /\ [][NextCache]_vars

\* ------------------------------------------------------------ RateLimiter
\* wait_if_needed, `with self.lock:` entered
LimiterAcquire(t) ==
    /\ pc[t] = "acquire"
    /\ lock = 0
    /\ lock' = t
    /\ pc' = [pc EXCEPT ![t] = "check"]
    /\ UNCHANGED <<now, searchVars, classVars, cacheVars, directVars, min_interval, last_request_time,
                   limiterLog, wake, callVars>>

\* how long wait_if_needed sleeps when called at current_time
wait_time_none(current_time) == 0

wait_time(current_time) ==
    LET time_since_last == current_time - last_request_time
    IN  IF time_since_last < min_interval
        THEN min_interval - time_since_last
        ELSE 0

\* wait_if_needed, the check under the lock; time.sleep(wait_time) starts
LimiterCheck(t) ==
    /\ pc[t] = "check"
    /\ LET current_time == now
       IN  IF wait_time(current_time) > 0
           THEN /\ wake' = [wake EXCEPT ![t] = current_time + wait_time(current_time)]
                /\ pc' = [pc EXCEPT ![t] = "limiter_sleep"]
           ELSE /\ wake' = wake
                /\ pc' = [pc EXCEPT ![t] = "update"]
    /\ UNCHANGED <<now, searchVars, classVars, cacheVars, directVars, limiterVars, limiterLog, callVars>>

\* time.sleep(wait_time) returns, the lock still held
LimiterWake(t) ==
    /\ pc[t] = "limiter_sleep"
    /\ now >= wake[t]
    /\ pc' = [pc EXCEPT ![t] = "update"]
    /\ UNCHANGED <<now, searchVars, classVars, cacheVars, directVars, limiterVars, limiterLog, wake, callVars>>

\* a wait_if_needed that returns without leaving its `with self.lock:` block
LimiterUpdate_keeps_lock(t, after) ==
    /\ pc[t] = "update"
    /\ last_request_time' = now
    /\ lock' = lock
    /\ released' = released + 1
    /\ first_release' = IF released = 0 THEN now ELSE first_release
    /\ pc' = [pc EXCEPT ![t] = after]
    /\ UNCHANGED <<now, searchVars, classVars, cacheVars, directVars, min_interval, wake, callVars>>

\* wait_if_needed, last_request_time = time.time(); the lock is released and
\* the caller goes on at `after`
LimiterUpdate(t, after) ==
    /\ pc[t] = "update"
    /\ last_request_time' = now
    /\ lock' = 0
    /\ released' = released + 1
    /\ first_release' = IF released = 0 THEN now ELSE first_release
    /\ pc' = [pc EXCEPT ![t] = after]
    /\ UNCHANGED <<now, searchVars, classVars, cacheVars, directVars, min_interval, wake, callVars>>

\* a thread calls wait_if_needed on the shared limiter
LimiterCall(t) ==
    /\ pc[t] = "idle"
    /\ limiter_calls[t] < MaxCalls
    /\ limiter_calls' = [limiter_calls EXCEPT ![t] = @ + 1]
    /\ pc' = [pc EXCEPT ![t] = "acquire"]
    /\ UNCHANGED <<now, searchVars, classVars, cacheVars, directVars, limiterVars, limiterLog, wake,
                   page_title, attempt, last_exception, requests_made, delays,
                   raised, data, got_error, result, from_cache, cache_at_call,
                   fetched, forced, running, network_error, escaped, thrown>>

\* RateLimiter(requests_per_second) shared by NumThreads callers
InitLimiter ==
    /\ InitCommon
    /\ InitNoText
    /\ ttl_seconds = 1
    /\ max_size = 1
    /\ min_interval \in 1..MaxInterval

NextLimiter ==
    \/ \E t \in Threads : LimiterCall(t)
    \/ \E t \in Threads : LimiterAcquire(t)
    \/ \E t \in Threads : LimiterCheck(t)
    \/ \E t \in Threads : LimiterWake(t)
    \/ \E t \in Threads : LimiterUpdate(t, "idle")
    \/ Tick(EndTime)

SpecLimiter == InitLimiter /\ [][NextLimiter]_vars

\* the clock never stops while a caller is inside time.sleep(): beyond the
\* explored horizon time goes on for as long as some sleep has not ended
Sleeping(t) == pc[t] = "limiter_sleep" /\ now < wake[t]
TimePasses ==
    /\ now < EndTime \/ \E t \in Threads : Sleeping(t)
    /\ now' = now + 1
    /\ UNCHANGED <<cacheVars, directVars, limiterVars, pc, wake, callVars, limiterLog,
                   searchVars, classVars>>

NextLimiterFair ==
    \/ \E t \in Threads : limiter_calls[t] < MaxWaits /\ LimiterCall(t)
    \/ \E t \in Threads : LimiterAcquire(t)
    \/ \E t \in Threads : LimiterCheck(t)
    \/ \E t \in Threads : LimiterWake(t)
    \/ \E t \in Threads : LimiterUpdate(t, "idle")
    \/ TimePasses

\* the scheduler lets every caller that can take a step take one eventually,
\* and time passes; the callers make finitely many calls (MaxWaits each), so
\* a free lock stays free until a waiting caller takes it
LimiterFairness ==
    /\ WF_vars(TimePasses)
    /\ \A t \in Threads :
          /\ WF_vars(LimiterAcquire(t))
          /\ WF_vars(LimiterCheck(t))
          /\ WF_vars(LimiterWake(t))
          /\ WF_vars(LimiterUpdate(t, "idle"))

\* RateLimiter with the longest interval explored, the one that keeps its
\* callers inside time.sleep() longest
InitLimiterFair ==
    /\ InitCommon
    /\ InitNoText
    /\ ttl_seconds = 1
    /\ max_size = 1
    /\ min_interval = MaxInterval

SpecLimiterFair == InitLimiterFair /\ [][NextLimiterFair]_vars /\ LimiterFairness

\* ------------------------------------------------- retry_on_network_error
\* @retry_on_network_error(max_retries=3, backoff_factor=2.0, initial_delay=1.0)
max_retries == 3
backoff_factor == 2
initial_delay == 1

RECURSIVE Pow(_, _)
Pow(b, n) == IF n = 0 THEN 1 ELSE b * Pow(b, n - 1)

\* requests.exceptions.RequestException and its subclasses, as session.get
\* (Timeout, ConnectionError) and raise_for_status (HTTPError) raise them
RequestException == {"Timeout", "ConnectionError", "HTTPError"}
\* what the request raises that is no RequestException
OtherExceptions == {"ValueError"}

\* `except requests.exceptions.Timeout` and
\* `except requests.exceptions.RequestException` of the wrapper
wrapper_catches_transport_only(exc) == exc = "Timeout" \/ exc = "ConnectionError"

wrapper_catches(exc) == exc = "Timeout" \/ exc \in RequestException

\* the WikiClient the decorated method is called on, and the str() of an
\* object whose class defines neither __str__ nor __repr__
WIKI_API_URL == "https://stardewvalleywiki.com/mediawiki/api.php"
self == [class |-> "WikiClient", api_url |-> WIKI_API_URL]
str(obj) == "<" \o obj.class \o " object>"

\* NetworkError(url=str(args[0]) if args else "unknown", original_error=e)
\* raised by wrapper(*args, **kwargs)
NetworkError(args, e) ==
    [url |-> IF Len(args) > 0 THEN str(args[1]) ELSE "unknown",
     original_error |-> e]

\* `if attempt == max_retries - 1`: the failed attempt was the last one
last_attempt_one_more(a) == a = max_retries

last_attempt(a) == a = max_retries - 1

\* delay = initial_delay * (backoff_factor ** attempt)
delay(a) == initial_delay * Pow(backoff_factor, a)

\* -------------------------------------------------------------------- str
\* Python strings that are searched, cut and re-cased are TLA+ strings
LowerCase == "abcdefghijklmnopqrstuvwxyz"
UpperCase == "ABCDEFGHIJKLMNOPQRSTUVWXYZ"
Digits == "0123456789"
CharAt(s, i) == SubSeq(s, i, i)
CharsOf(s) == {CharAt(s, i) : i \in 1..Len(s)}
IndexIn(alphabet, c) == CHOOSE i \in 1..Len(alphabet) : CharAt(alphabet, i) = c
LowerChars == CharsOf(LowerCase)
UpperChars == CharsOf(UpperCase)
\* \w of a regular expression
WordChars == LowerChars \cup UpperChars \cup CharsOf(Digits) \cup {"_"}
IsCased(c) == c \in LowerChars \cup UpperChars
lower_char(c) == IF c \in UpperChars THEN CharAt(LowerCase, IndexIn(UpperCase, c)) ELSE c
upper_char(c) == IF c \in LowerChars THEN CharAt(UpperCase, IndexIn(LowerCase, c)) ELSE c

\* str.lower()
RECURSIVE str_lower(_)
str_lower(s) ==
    IF s = "" THEN "" ELSE lower_char(CharAt(s, 1)) \o str_lower(SubSeq(s, 2, Len(s)))

\* str.title(): a cased character is upper-cased unless it follows a cased
\* character, in which case it is lower-cased
RECURSIVE TitleFrom(_, _)
TitleFrom(s, i) ==
    IF i > Len(s)
    THEN ""
    ELSE (IF i > 1 /\ IsCased(CharAt(s, i - 1))
          THEN lower_char(CharAt(s, i))
          ELSE upper_char(CharAt(s, i))) \o TitleFrom(s, i + 1)
str_title(s) == TitleFrom(s, 1)

\* str.strip()
RECURSIVE str_strip(_)
str_strip(s) ==
    IF s # "" /\ CharAt(s, 1) = " "
    THEN str_strip(SubSeq(s, 2, Len(s)))
    ELSE IF s # "" /\ CharAt(s, Len(s)) = " "
         THEN str_strip(SubSeq(s, 1, Len(s) - 1))
         ELSE s

\* str.split(): the maximal runs of non-blank characters
RECURSIVE SplitFrom(_, _, _)
SplitFrom(s, i, word) ==
    IF i > Len(s)
    THEN IF word = "" THEN <<>> ELSE <<word>>
    ELSE IF CharAt(s, i) = " "
         THEN (IF word = "" THEN <<>> ELSE <<word>>) \o SplitFrom(s, i + 1, "")
         ELSE SplitFrom(s, i + 1, word \o CharAt(s, i))
str_split(s) == SplitFrom(s, 1, "")

\* " ".join(words)
RECURSIVE str_join(_)
str_join(words) ==
    IF words = <<>>
    THEN ""
    ELSE IF Len(words) = 1
         THEN words[1]
         ELSE words[1] \o " " \o str_join(Tail(words))

\* `sub in s`
Contains(s, sub) ==
    \E i \in 1..(Len(s) - Len(sub) + 1) : SubSeq(s, i, i + Len(sub) - 1) = sub

\* --------------------------------------------------------------------- re
\* the regular expressions of preprocess_query, as syntax trees
Lit(l) == [t |-> "lit", l |-> l]
Alt(xs) == [t |-> "alt", xs |-> xs]         \* (?:a|b|c), tried in order
Cat(xs) == [t |-> "cat", xs |-> xs]
Opt(x) == Alt(<<x, Lit("")>>)               \* x?, greedy
Word1 == [t |-> "plus", cls |-> "w"]        \* \w+
Any1 == [t |-> "plus", cls |-> "."]         \* .+
Group(x) == [t |-> "group", x |-> x]        \* (x), the one capturing group

InClass(c, cls) == IF cls = "w" THEN c \in WordChars ELSE TRUE
\* length of the run of characters of the class that starts at position i
RECURSIVE ClassRun(_, _, _)
ClassRun(s, i, cls) ==
    IF i > Len(s) \/ ~InClass(CharAt(s, i), cls) THEN 0 ELSE 1 + ClassRun(s, i + 1, cls)

\* the ways node n matches s from position i, in the order a backtracking
\* matcher tries them: the position after the match and the captured group
RECURSIVE Match(_, _, _), MatchAlt(_, _, _, _), MatchCat(_, _, _, _), MatchRest(_, _, _, _, _)
Match(n, s, i) ==
    CASE n.t = "lit" ->
            IF i + Len(n.l) - 1 <= Len(s) /\ SubSeq(s, i, i + Len(n.l) - 1) = n.l
            THEN <<[e |-> i + Len(n.l), g |-> None]>>
            ELSE <<>>
      [] n.t = "plus" ->
            LET k == ClassRun(s, i, n.cls)
            IN  [j \in 1..k |-> [e |-> i + k - j + 1, g |-> None]]
      [] n.t = "alt" -> MatchAlt(n.xs, 1, s, i)
      [] n.t = "cat" -> MatchCat(n.xs, 1, s, i)
      [] n.t = "group" ->
            LET r == Match(n.x, s, i)
            IN  [j \in 1..Len(r) |-> [e |-> r[j].e, g |-> Some(SubSeq(s, i, r[j].e - 1))]]
MatchAlt(xs, k, s, i) ==
    IF k > Len(xs) THEN <<>> ELSE Match(xs[k], s, i) \o MatchAlt(xs, k + 1, s, i)
MatchCat(xs, k, s, i) ==
    IF k > Len(xs)
    THEN <<[e |-> i, g |-> None]>>
    ELSE MatchRest(Match(xs[k], s, i), 1, xs, k, s)
MatchRest(first, j, xs, k, s) ==
    IF j > Len(first)
    THEN <<>>
    ELSE LET rest == MatchCat(xs, k + 1, s, first[j].e)
         IN  [m \in 1..Len(rest) |->
                 [e |-> rest[m].e,
                  g |-> IF first[j].g # None THEN first[j].g ELSE rest[m].g]]
             \o MatchRest(first, j + 1, xs, k, s)

\* re.search(pattern, s): the leftmost match, or None
RECURSIVE SearchFrom(_, _, _)
SearchFrom(pattern, s, i) ==
    IF i > Len(s) + 1
    THEN None
    ELSE LET r == Match(pattern, s, i)
         IN  IF r # <<>> THEN Some(r[1]) ELSE SearchFrom(pattern, s, i + 1)
re_search(pattern, s) == SearchFrom(pattern, s, 1)
\* match.group(1)
group1(match) == match[1].g[1]

\* re.sub(pattern, "", s): the non-overlapping matches are cut out
RECURSIVE SubFrom(_, _, _)
SubFrom(pattern, s, i) ==
    IF i > Len(s)
    THEN ""
    ELSE LET r == Match(pattern, s, i)
         IN  IF r # <<>> /\ r[1].e > i
             THEN SubFrom(pattern, s, r[1].e)
             ELSE CharAt(s, i) \o SubFrom(pattern, s, i + 1)
re_sub(pattern, s) == SubFrom(pattern, s, 1)

\* ------------------------------------------------------- preprocess_query
\* Pattern 1: "what does X like/love/hate" -> NPC gift preferences
gift_patterns ==
    <<Cat(<<Lit("what "), Alt(<<Lit("does"), Lit("do")>>), Lit(" "), Group(Word1), Lit(" "),
            Alt(<<Lit("like"), Lit("love"), Lit("hate"), Lit("want")>>)>>),
      Cat(<<Group(Word1), Lit("'"), Opt(Lit("s")), Lit(" "),
            Alt(<<Lit("favorite"), Lit("liked"), Lit("loved"), Lit("hated")>>), Lit(" "),
            Alt(<<Lit("gift"), Lit("item"), Lit("thing")>>)>>),
      Cat(<<Lit("gift"), Opt(Lit("s")), Lit(" for "), Group(Word1)>>),
      Cat(<<Lit("best gift for "), Group(Word1)>>)>>
\* Pattern 3: "crops in/for X season"
crop_season_patterns ==
    <<Cat(<<Lit("crop"), Opt(Lit("s")), Lit(" "),
            Alt(<<Lit("in"), Lit("for"), Lit("during")>>), Lit(" "), Group(Word1)>>),
      Cat(<<Group(Word1), Lit(" crop"), Opt(Lit("s"))>>),
      Cat(<<Lit("what "), Alt(<<Lit("to"), Lit("can i")>>), Lit(" plant "),
            Alt(<<Lit("in"), Lit("during")>>), Lit(" "), Group(Word1)>>)>>
\* Pattern 4: "where to find X" or "how to get X"
location_patterns ==
    <<Cat(<<Lit("where "),
            Alt(<<Lit("to find"),
                  Cat(<<Lit("can i "), Alt(<<Lit("find"), Lit("get")>>)>>)>>),
            Lit(" "), Group(Any1)>>),
      Cat(<<Lit("how "), Alt(<<Lit("to"), Lit("do i")>>), Lit(" "),
            Alt(<<Lit("get"), Lit("obtain"), Lit("find")>>), Lit(" "), Group(Any1)>>),
      Cat(<<Lit("location of "), Group(Any1)>>)>>
\* the phrases the bundle, festival and quest rules cut out
bundle_need == Cat(<<Lit("what "), Alt(<<Lit("do i"), Cat(<<Lit("does "), Any1>>)>>),
                     Lit(" need "), Alt(<<Lit("for"), Lit("to complete")>>), Lit(" ")>>)
bundle_items == Cat(<<Alt(<<Lit("items for"), Lit("requirements for")>>), Lit(" ")>>)
festival_when == Cat(<<Lit("when is "), Opt(Lit("the "))>>)
festival_what == Cat(<<Lit("what "), Alt(<<Lit("happens at"), Lit("is")>>), Lit(" "),
                       Opt(Lit("the "))>>)
quest_how == Cat(<<Alt(<<Lit("how to complete"), Lit("requirements for")>>), Lit(" ")>>)

seasons == <<"spring", "summer", "fall", "winter">>
SeasonNames == {"Spring", "Summer", "Fall", "Winter"}
filler_words == {"the", "a", "an", "in", "on", "at", "to", "for", "of", "with",
                 "is", "are", "was", "were", "can", "i", "you", "what", "where",
                 "when", "how", "do", "does", "did"}

\* `for pattern in patterns: match = re.search(pattern, s); if match:`
RECURSIVE first_match(_, _, _)
first_match(patterns, k, s) ==
    IF k > Len(patterns)
    THEN None
    ELSE LET match == re_search(patterns[k], s)
         IN  IF match # None THEN match ELSE first_match(patterns, k + 1, s)

\* each rule: the list it returns, or None when it does not return
gift_rule(query_lower) ==
    LET match == first_match(gift_patterns, 1, query_lower)
    IN  IF match # None
        THEN LET npc_name == str_title(group1(match))
             IN  Some(<<npc_name, npc_name \o " gifts">>)
        ELSE None

birthday_rule(query_lower) ==
    IF Contains(query_lower, "birthday")
    THEN LET found == SelectSeq(seasons, LAMBDA season : Contains(query_lower, season))
         IN  Some(<<"Calendar", "birthday">> \o
                  (IF found # <<>> THEN <<found[1]>> ELSE <<>>))
    ELSE None

RECURSIVE crop_season(_, _)
crop_season(k, query_lower) ==
    IF k > Len(crop_season_patterns)
    THEN None
    ELSE LET match == re_search(crop_season_patterns[k], query_lower)
         IN  IF /\ match # None
                /\ Contains(query_lower, "crop")
                /\ str_title(group1(match)) \in SeasonNames
             THEN Some(str_title(group1(match)))
             ELSE crop_season(k + 1, query_lower)

crop_rule(query_lower) ==
    LET season == crop_season(1, query_lower)
    IN  IF season # None
        THEN Some(<<season[1] \o " Crops", season[1], "crops">>)
        ELSE None

location_rule(query_lower) ==
    LET match == first_match(location_patterns, 1, query_lower)
    IN  IF match # None
        THEN LET item == str_strip(group1(match))
             IN  Some(<<str_title(item), item>>)
        ELSE None

bundle_rule(query_lower) ==
    IF Contains(query_lower, "bundle")
    THEN LET bundle_query == re_sub(bundle_items, re_sub(bundle_need, query_lower))
         IN  Some(<<str_title(bundle_query), "bundles">>)
    ELSE None

festival_rule(query_lower) ==
    IF Contains(query_lower, "festival") \/ Contains(query_lower, "event")
    THEN LET festival_query == re_sub(festival_what, re_sub(festival_when, query_lower))
         IN  Some(<<str_title(festival_query), "festivals">>)
    ELSE None

quest_rule(query_lower) ==
    IF Contains(query_lower, "quest")
    THEN LET quest_query == re_sub(quest_how, query_lower)
         IN  Some(<<str_title(quest_query), "quests">>)
    ELSE None

\* Pattern 8 and the fallback: the key words of the query, else the query itself
keyword_terms(q, query_lower) ==
    LET words == str_split(query_lower)
        keywords == SelectSeq(words, LAMBDA w : w \notin filler_words /\ Len(w) > 2)
        titled == [i \in 1..Len(keywords) |-> str_title(keywords[i])]
        search_strategies ==
            (IF Len(keywords) > 1 THEN <<str_join(titled)>> ELSE <<>>) \o titled
    IN  IF search_strategies # <<>>
        THEN search_strategies
        ELSE <<str_title(q), str_lower(q)>>

preprocess_query_birthday_first(q) ==
    LET query_lower == str_strip(str_lower(q))
    IN  IF birthday_rule(query_lower) # None THEN birthday_rule(query_lower)[1]
        ELSE IF gift_rule(query_lower) # None THEN gift_rule(query_lower)[1]
        ELSE IF crop_rule(query_lower) # None THEN crop_rule(query_lower)[1]
        ELSE IF location_rule(query_lower) # None THEN location_rule(query_lower)[1]
        ELSE IF bundle_rule(query_lower) # None THEN bundle_rule(query_lower)[1]
        ELSE IF festival_rule(query_lower) # None THEN festival_rule(query_lower)[1]
        ELSE IF quest_rule(query_lower) # None THEN quest_rule(query_lower)[1]
        ELSE keyword_terms(q, query_lower)

preprocess_query(q) ==
    LET query_lower == str_strip(str_lower(q))
    IN  IF gift_rule(query_lower) # None THEN gift_rule(query_lower)[1]
        ELSE IF birthday_rule(query_lower) # None THEN birthday_rule(query_lower)[1]
        ELSE IF crop_rule(query_lower) # None THEN crop_rule(query_lower)[1]
        ELSE IF location_rule(query_lower) # None THEN location_rule(query_lower)[1]
        ELSE IF bundle_rule(query_lower) # None THEN bundle_rule(query_lower)[1]
        ELSE IF festival_rule(query_lower) # None THEN festival_rule(query_lower)[1]
        ELSE IF quest_rule(query_lower) # None THEN quest_rule(query_lower)[1]
        ELSE keyword_terms(q, query_lower)

\* ------------------------------------------------------------- WikiClient
\* bodies of the pages the wiki serves: parse.text["*"] and parse.categories
Pages == {[text |-> "<html>", categories |-> <<"Crops">>]}
\* {} and dict.get(key, default)
EmptyDict == [k \in {} |-> k]
GetOr(d, k, default) == IF k \in DOMAIN d THEN d[k] ELSE default
\* JSON documents the API answers with: an error, a parsed page, a parse
\* object without content
Responses == {[error |-> "missingtitle"]} \cup {[parse |-> p] : p \in Pages}
                \cup {[parse |-> EmptyDict]}

Failure(title, kind) == [success |-> FALSE, error |-> kind, page_title |-> title]

\* how a method ends for its caller: `return res` or an exception passing through
Returns(res) == [returns |-> res]
Raises(exc) == [raises |-> exc]

\* get_page, its except clauses: PageNotFoundError, NetworkError, Exception
get_page_except_no_catch_all(title, exc) ==
    IF exc = "PageNotFoundError"
    THEN Returns(Failure(title, "PageNotFoundError"))
    ELSE IF exc = "NetworkError"
         THEN Returns(Failure(title, "NetworkError"))
         ELSE Raises(exc)

get_page_except(title, exc) ==
    IF exc = "PageNotFoundError"
    THEN Returns(Failure(title, "PageNotFoundError"))
    ELSE IF exc = "NetworkError"
         THEN Returns(Failure(title, "NetworkError"))
         ELSE Returns(Failure(title, "Unexpected error"))

\* get_page, from the response to the returned dictionary
get_page_result_ignore_error(title, d) ==
    LET parse_data == GetOr(d, "parse", EmptyDict)
    IN  [success |-> TRUE, page_title |-> title,
         html |-> GetOr(parse_data, "text", ""),
         categories |-> GetOr(parse_data, "categories", <<>>)]

get_page_result(title, d) ==
    IF "error" \in DOMAIN d
    THEN Failure(title, "PageNotFoundError")
    ELSE LET parse_data == GetOr(d, "parse", EmptyDict)
         IN  [success |-> TRUE, page_title |-> title,
              html |-> GetOr(parse_data, "text", ""),
              categories |-> GetOr(parse_data, "categories", <<>>)]

\* get_page, the cache its try block leaves: PageNotFoundError is raised before
\* self.cache.set is reached
cache_after_response_always(c, title, d) ==
    set(c, title, get_page_result(title, d))

cache_after_response(c, title, d) ==
    IF "error" \in DOMAIN d
    THEN c
    ELSE set(c, title, get_page_result(title, d))

\* get_page(title) is called: the cache lookup, and on a miss the first
\* iteration of the retry wrapper, which enters wait_if_needed
GetPageCall(t, title, f) ==
    /\ pc[t] \in {"idle", "done"}
    /\ hits + misses < MaxLookups
    /\ LET r == get(cache, hits, misses, title)
       IN  /\ cache' = r.cache
           /\ hits' = r.hits
           /\ misses' = r.misses
           /\ IF r.ret # None
              THEN /\ result' = [result EXCEPT ![t] = r.ret]
                   /\ from_cache' = [from_cache EXCEPT ![t] = TRUE]
                   /\ limiter_calls' = [limiter_calls EXCEPT ![t] = 0]
                   /\ pc' = [pc EXCEPT ![t] = "done"]
                   /\ forced' = 0
              ELSE /\ result' = [result EXCEPT ![t] = None]
                   /\ from_cache' = [from_cache EXCEPT ![t] = FALSE]
                   /\ limiter_calls' = [limiter_calls EXCEPT ![t] = 1]
                   /\ pc' = [pc EXCEPT ![t] = "acquire"]
                   /\ forced' = f
    /\ page_title' = [page_title EXCEPT ![t] = title]
    /\ cache_at_call' = [cache_at_call EXCEPT ![t] = cache]
    /\ attempt' = [attempt EXCEPT ![t] = 0]
    /\ last_exception' = [last_exception EXCEPT ![t] = None]
    /\ requests_made' = [requests_made EXCEPT ![t] = 0]
    /\ delays' = [delays EXCEPT ![t] = <<>>]
    /\ raised' = [raised EXCEPT ![t] = <<>>]
    /\ data' = [data EXCEPT ![t] = None]
    /\ got_error' = [got_error EXCEPT ![t] = 0]
    /\ running' = [running EXCEPT ![t] = Some("get_page")]
    /\ network_error' = [network_error EXCEPT ![t] = None]
    /\ escaped' = [escaped EXCEPT ![t] = None]
    /\ thrown' = [thrown EXCEPT ![t] = None]
    /\ UNCHANGED <<now, searchVars, classVars, ttl_seconds, max_size, directVars,
                   limiterVars, limiterLog, wake, fetched>>

\* get_page returns `res`
Return(t, res) ==
    /\ result' = [result EXCEPT ![t] = Some(res)]
    /\ pc' = [pc EXCEPT ![t] = "done"]

\* the method ends for its caller
Leave(t, outcome) ==
    /\ pc' = [pc EXCEPT ![t] = "done"]
    /\ IF "returns" \in DOMAIN outcome
       THEN /\ result' = [result EXCEPT ![t] = Some(outcome.returns)]
            /\ UNCHANGED thrown
       ELSE /\ thrown' = [thrown EXCEPT ![t] = Some(outcome.raises)]
            /\ UNCHANGED result

\* search ends for its caller: smart_search goes on with what it returned
SearchLeave(t, outcome) ==
    IF "returns" \in DOMAIN outcome
    THEN /\ searched' = [searched EXCEPT ![Len(searched)].result = Some(outcome.returns)]
         /\ pc' = [pc EXCEPT ![t] = "search_returned"]
         /\ UNCHANGED <<result, thrown>>
    ELSE /\ thrown' = [thrown EXCEPT ![t] = Some(outcome.raises)]
         /\ pc' = [pc EXCEPT ![t] = "done"]
         /\ UNCHANGED <<result, searched>>

\* search, its except clauses: NetworkError, Exception
search_failure(term, kind) == [success |-> FALSE, error |-> kind, query |-> term]

search_except_no_catch_all(term, exc) ==
    IF exc = "NetworkError"
    THEN Returns(search_failure(term, "NetworkError"))
    ELSE Raises(exc)

search_except(term, exc) ==
    IF exc = "NetworkError"
    THEN Returns(search_failure(term, "NetworkError"))
    ELSE Returns(search_failure(term, "Unexpected error"))

\* an exception leaves _make_api_request inside the try block of the method
\* that called it
Except(t, exc) ==
    IF running[t] = Some("get_page")
    THEN /\ Leave(t, get_page_except(page_title[t], exc))
         /\ UNCHANGED searched
    ELSE SearchLeave(t, search_except(params.srsearch, exc))

\* the positional arguments of wrapper(*args, **kwargs): self._make_api_request(params)
request_args(t) ==
    <<self, IF running[t] = Some("get_page")
            THEN [action |-> "parse", page |-> page_title[t]]
            ELSE params>>

\* the except clauses of the wrapper around one failed attempt: NetworkError
\* after the last attempt, else time.sleep(delay); an exception they do not
\* name passes through
WrapperExcept(t, exc) ==
    IF wrapper_catches(exc)
    THEN /\ raised' = [raised EXCEPT ![t] = Append(@, exc)]
         /\ last_exception' = [last_exception EXCEPT ![t] = Some(exc)]
         /\ UNCHANGED escaped
         /\ IF last_attempt(attempt[t])
            THEN /\ network_error' = [network_error EXCEPT ![t] =
                                          Some(NetworkError(request_args(t), exc))]
                 /\ Except(t, "NetworkError")
                 /\ UNCHANGED <<wake, delays>>
            ELSE /\ wake' = [wake EXCEPT ![t] = now + delay(attempt[t])]
                 /\ delays' = [delays EXCEPT ![t] = Append(@, delay(attempt[t]))]
                 /\ pc' = [pc EXCEPT ![t] = "backoff"]
                 /\ UNCHANGED <<result, thrown, searched, network_error>>
    ELSE /\ escaped' = [escaped EXCEPT ![t] = Some(exc)]
         /\ Except(t, exc)
         /\ UNCHANGED <<raised, last_exception, wake, delays, network_error>>

\* session.get or raise_for_status raises a RequestException
RequestFails(t, exc) ==
    /\ pc[t] = "send"
    /\ forced > 0
    /\ forced' = forced - 1
    /\ requests_made' = [requests_made EXCEPT ![t] = @ + 1]
    /\ WrapperExcept(t, exc)
    /\ UNCHANGED <<now, searchArgs, classVars, cacheVars, directVars, limiterVars,
                   limiterLog, page_title, attempt, limiter_calls, data, got_error,
                   from_cache, cache_at_call, fetched, running>>

\* a wrapper whose retries go to session.get without entering wait_if_needed
BackoffWake_no_wait(t) ==
    /\ pc[t] = "backoff"
    /\ now >= wake[t]
    /\ attempt' = [attempt EXCEPT ![t] = @ + 1]
    /\ pc' = [pc EXCEPT ![t] = "send"]
    /\ UNCHANGED <<now, searchVars, classVars, cacheVars, directVars, limiterVars, limiterLog, wake,
                   page_title, last_exception, requests_made, limiter_calls, delays, raised, data,
                   got_error, result, from_cache, cache_at_call, fetched, forced,
                   running, network_error, escaped, thrown>>

\* time.sleep(delay) returns: the next iteration of the wrapper calls
\* _make_api_request again, which enters wait_if_needed
BackoffWake(t) ==
    /\ pc[t] = "backoff"
    /\ now >= wake[t]
    /\ attempt' = [attempt EXCEPT ![t] = @ + 1]
    /\ limiter_calls' = [limiter_calls EXCEPT ![t] = @ + 1]
    /\ pc' = [pc EXCEPT ![t] = "acquire"]
    /\ UNCHANGED <<now, searchVars, classVars, cacheVars, directVars, limiterVars, limiterLog, wake,
                   page_title, last_exception, requests_made, delays, raised, data,
                   got_error, result, from_cache, cache_at_call, fetched, forced,
                   running, network_error, escaped, thrown>>

\* the API answers with a JSON document: get_page returns the page-absent
\* failure, or builds the result, caches it and returns it
RequestAnswered(t, d) ==
    /\ pc[t] = "send"
    /\ running[t] = Some("get_page")
    /\ forced = 0
    /\ requests_made' = [requests_made EXCEPT ![t] = @ + 1]
    /\ data' = [data EXCEPT ![t] = Some(d)]
    /\ Return(t, get_page_result(page_title[t], d))
    /\ UNCHANGED <<running, network_error, escaped, thrown>>
    /\ cache' = cache_after_response(cache, page_title[t], d)
    /\ IF "error" \in DOMAIN d
       THEN /\ got_error' = [got_error EXCEPT ![t] = @ + 1]
            /\ UNCHANGED fetched
       ELSE /\ fetched' = [fetched EXCEPT ![Lower(page_title[t])] =
                                Some(get_page_result(page_title[t], d))]
            /\ UNCHANGED got_error
    /\ UNCHANGED <<now, searchVars, classVars, ttl_seconds, max_size, hits, misses, directVars, limiterVars,
                   limiterLog, wake, page_title, attempt, last_exception,
                   limiter_calls, delays, raised, from_cache, cache_at_call, forced>>

\* the request raises something that is no RequestException
RequestUnexpected(t, exc) ==
    /\ pc[t] = "send"
    /\ forced = 0
    /\ requests_made' = [requests_made EXCEPT ![t] = @ + 1]
    /\ WrapperExcept(t, exc)
    /\ UNCHANGED <<now, searchArgs, classVars, cacheVars, directVars, limiterVars,
                   limiterLog, page_title, attempt, limiter_calls, data, got_error,
                   from_cache, cache_at_call, fetched, forced, running>>

\* WikiClient(api_url, cache_ttl, cache_max_size, rate_limit) with one caller;
\* a cache_max_size above the number of keys in use is never reached
InitClient ==
    /\ InitCommon
    /\ InitNoText
    /\ ttl_seconds \in 1..MaxTtl
    /\ max_size \in {n \in 1..MaxCap : n <= Cardinality(CacheKeys)}
    /\ min_interval \in 1..MaxInterval

NextClient ==
    \/ \E t \in ClientThreads, title \in PageTitles, f \in 0..max_retries :
          GetPageCall(t, title, f)
    \/ \E t \in ClientThreads : LimiterAcquire(t)
    \/ \E t \in ClientThreads : LimiterCheck(t)
    \/ \E t \in ClientThreads : LimiterWake(t)
    \/ \E t \in ClientThreads : LimiterUpdate(t, "send")
    \/ \E t \in ClientThreads, exc \in RequestException : RequestFails(t, exc)
    \/ \E t \in ClientThreads : BackoffWake(t)
    \/ \E t \in ClientThreads, d \in Responses : RequestAnswered(t, d)
    \/ \E t \in ClientThreads, exc \in OtherExceptions : RequestUnexpected(t, exc)
    \/ Tick(EndTime)

SpecClient == InitClient /\ [][NextClient]_vars

\* ------------------------------------------------- search and smart_search
\* the hit lists the search API answers with, and its JSON documents: a
\* query.search list, or a document without one
Hits == {<<>>, <<[title |-> "Sebastian"], [title |-> "Gifts"]>>}
SearchResponses == {[query |-> [search |-> h]] : h \in Hits} \cup {[error |-> "badvalue"]}
\* the queries and limits search and smart_search are called with
SearchQueries == {"what does Sebastian like", "spring crops", "cave"}
Limits == {-1, 0, 10, 51}
\* preprocess_query(q) for the queries smart_search is called with
candidate_terms == [q \in SearchQueries |-> preprocess_query(q)]

\* search, the API parameters it builds
search_params(term, lim) ==
    [action |-> "query", list |-> "search", srsearch |-> term, srlimit |-> lim,
     format |-> "json"]

\* search, from the response to the returned dictionary
search_result(term, d) ==
    LET search_results == GetOr(GetOr(d, "query", EmptyDict), "search", <<>>)
    IN  [success |-> TRUE, query |-> term, results |-> search_results,
         count |-> Len(search_results)]

\* smart_search: `if result["success"] and result["count"] > 0`
is_hit_any_success(r) == r.success

is_hit(r) == r.success /\ r.count > 0

\* smart_search: the term of its search call after i candidates were tried,
\* `for i, term in enumerate(search_terms)` and then the original query
smart_search_term_last_candidate(terms, i, q) ==
    IF i < Len(terms) THEN terms[i + 1] ELSE IF terms # <<>> THEN terms[Len(terms)] ELSE q

smart_search_term(terms, i, q) ==
    IF i < Len(terms) THEN terms[i + 1] ELSE q

\* smart_search: the metadata it adds to the result it returns
annotate(r, q, term, i) ==
    [original_query |-> q, strategy_used |-> term, strategy_index |-> i] @@ r

\* search(term, lim) is entered: it builds params and calls _make_api_request,
\* whose first iteration of the retry wrapper enters wait_if_needed
SearchBegin(t, term, lim, f, log) ==
    /\ params' = search_params(term, lim)
    /\ searched' = Append(log, [term |-> term, result |-> None])
    /\ attempt' = [attempt EXCEPT ![t] = 0]
    /\ last_exception' = [last_exception EXCEPT ![t] = None]
    /\ requests_made' = [requests_made EXCEPT ![t] = 0]
    /\ limiter_calls' = [limiter_calls EXCEPT ![t] = 1]
    /\ delays' = [delays EXCEPT ![t] = <<>>]
    /\ raised' = [raised EXCEPT ![t] = <<>>]
    /\ data' = [data EXCEPT ![t] = None]
    /\ network_error' = [network_error EXCEPT ![t] = None]
    /\ escaped' = [escaped EXCEPT ![t] = None]
    /\ forced' = f
    /\ pc' = [pc EXCEPT ![t] = "acquire"]

\* search(q, lim) is called by the client's user; search keeps nothing from
\* one call to the next, so one call of a fresh client is explored
SearchCall(t, q, lim, f) ==
    /\ pc[t] = "idle"
    /\ running' = [running EXCEPT ![t] = Some("search")]
    /\ query' = q
    /\ limit' = lim
    /\ search_terms' = <<>>
    /\ strategy_index' = 0
    /\ result' = [result EXCEPT ![t] = None]
    /\ thrown' = [thrown EXCEPT ![t] = None]
    /\ SearchBegin(t, q, lim, f, <<>>)
    /\ UNCHANGED <<now, classVars, cacheVars, directVars, limiterVars, limiterLog, wake,
                   page_title, got_error, from_cache, cache_at_call, fetched>>

\* smart_search(q, lim) is called: preprocess_query, then search on the first term
SmartSearchCall(t, q, lim, f) ==
    /\ pc[t] = "idle"
    /\ running' = [running EXCEPT ![t] = Some("smart_search")]
    /\ query' = q
    /\ limit' = lim
    /\ search_terms' = candidate_terms[q]
    /\ strategy_index' = 0
    /\ result' = [result EXCEPT ![t] = None]
    /\ thrown' = [thrown EXCEPT ![t] = None]
    /\ SearchBegin(t, smart_search_term(candidate_terms[q], 0, q), lim, f, <<>>)
    /\ UNCHANGED <<now, classVars, cacheVars, directVars, limiterVars, limiterLog, wake,
                   page_title, got_error, from_cache, cache_at_call, fetched>>

\* the API answers a search request with a JSON document: search returns its result
SearchAnswered(t, d) ==
    /\ pc[t] = "send"
    /\ running[t] \in {Some("search"), Some("smart_search")}
    /\ forced = 0
    /\ requests_made' = [requests_made EXCEPT ![t] = @ + 1]
    /\ data' = [data EXCEPT ![t] = Some(d)]
    /\ SearchLeave(t, Returns(search_result(params.srsearch, d)))
    /\ UNCHANGED <<now, searchArgs, classVars, cacheVars, directVars, limiterVars,
                   limiterLog, wake, page_title, attempt, last_exception, limiter_calls,
                   delays, raised, got_error, from_cache, cache_at_call, fetched,
                   forced, running, network_error, escaped>>

\* search, called by the client's user, hands its result to the caller
SearchReturn(t) ==
    /\ pc[t] = "search_returned"
    /\ running[t] = Some("search")
    /\ result' = [result EXCEPT ![t] = searched[Len(searched)].result]
    /\ pc' = [pc EXCEPT ![t] = "done"]
    /\ UNCHANGED <<now, searchVars, classVars, cacheVars, directVars, limiterVars,
                   limiterLog, wake, page_title, attempt, last_exception, requests_made,
                   limiter_calls, delays, raised, data, got_error, from_cache,
                   cache_at_call, fetched, forced, running, network_error, escaped,
                   thrown>>

\* smart_search goes on with what search returned: a hit of a candidate term is
\* returned, otherwise the next candidate and at last the original query are
\* searched, and the result for the original query is returned as it is
SmartSearchNext(t, f) ==
    /\ pc[t] = "search_returned"
    /\ running[t] = Some("smart_search")
    /\ LET r == searched[Len(searched)].result[1]
           term == searched[Len(searched)].term
       IN  IF strategy_index < Len(search_terms) /\ ~is_hit(r)
           THEN /\ strategy_index' = strategy_index + 1
                /\ SearchBegin(t, smart_search_term(search_terms, strategy_index + 1, query),
                               limit, f, searched)
                /\ UNCHANGED result
           ELSE /\ f = 0
                /\ result' = [result EXCEPT ![t] =
                                 Some(IF strategy_index < Len(search_terms)
                                      THEN annotate(r, query, term, strategy_index)
                                      ELSE annotate(r, query, query, Len(search_terms)))]
                /\ pc' = [pc EXCEPT ![t] = "done"]
                /\ UNCHANGED <<strategy_index, params, searched, attempt, last_exception,
                               requests_made, limiter_calls, delays, raised, data,
                               network_error, escaped, forced>>
    /\ UNCHANGED <<now, query, limit, search_terms, classVars, cacheVars, directVars,
                   limiterVars, limiterLog, wake, page_title, got_error, from_cache,
                   cache_at_call, fetched, running, thrown>>

\* WikiClient(api_url, rate_limit=...) whose one caller searches
InitSearch ==
    /\ InitCommon
    /\ InitNoText
    /\ ttl_seconds = 1
    /\ max_size = 1
    /\ min_interval \in 1..MaxInterval

NextSearch ==
    \/ \E t \in ClientThreads, q \in SearchQueries, lim \in Limits, f \in 0..max_retries :
          SearchCall(t, q, lim, f)
    \/ \E t \in ClientThreads, q \in SearchQueries, lim \in Limits, f \in 0..max_retries :
          SmartSearchCall(t, q, lim, f)
    \/ \E t \in ClientThreads : LimiterAcquire(t)
    \/ \E t \in ClientThreads : LimiterCheck(t)
    \/ \E t \in ClientThreads : LimiterWake(t)
    \/ \E t \in ClientThreads : LimiterUpdate(t, "send")
    \/ \E t \in ClientThreads, exc \in RequestException : RequestFails(t, exc)
    \/ \E t \in ClientThreads : BackoffWake(t)
    \/ \E t \in ClientThreads, d \in SearchResponses : SearchAnswered(t, d)
    \/ \E t \in ClientThreads, exc \in OtherExceptions : RequestUnexpected(t, exc)
    \/ \E t \in ClientThreads : SearchReturn(t)
    \/ \E t \in ClientThreads, f \in 0..max_retries : SmartSearchNext(t, f)
    \/ Tick(EndTime)

SpecSearch == InitSearch /\ [][NextSearch]_vars

\* ====================================================== properties: WikiCache
Expired(e) == now - e.timestamp >= ttl_seconds
SetKeys == {setLog[i].key : i \in 1..Len(setLog)}
\* the step is a direct get(key)
GetStep(key) ==
    /\ hits' + misses' = hits + misses + 1
    /\ Len(ret') = 2
    /\ ret'[1] = key

\* C3: an entry stored at time T with ttl_seconds = t is returned by every
\* get of its key before T+t; a get after T+t returns None and removes it.
C3_TtlExpiry ==
    [][\A key \in Titles :
        (GetStep(key) /\ DictHas(cache, Lower(key))) =>
            LET e == DictGet(cache, Lower(key))
            IN  /\ now < e.timestamp + ttl_seconds =>
                    (ret'[2] = Some(e.value) /\ cache' = cache)
                /\ now > e.timestamp + ttl_seconds =>
                    (ret'[2] = None /\ ~DictHas(cache', Lower(key)))]_vars

\* a get found its entry expired, answered None and removed it
C3_Witness ==
    /\ purged
    /\ Len(ret) = 2
    /\ ret[2] = None
    /\ ~DictHas(cache, Lower(ret[1]))

\* C4: after max_size + 1 set calls with pairwise distinct keys and no
\* expiry, the first-inserted key is absent and every other key is
\* retrievable with its own value.
C4_Scenario ==
    /\ tracked
    /\ Len(setLog) = max_size + 1
    /\ Cardinality(SetKeys) = Len(setLog)
    /\ \A i \in 1..Len(cache) : ~Expired(cache[i])

C4_EvictsFirstInserted ==
    C4_Scenario =>
        /\ get(cache, hits, misses, setLog[1].key).ret = None
        /\ \A i \in 2..Len(setLog) :
              get(cache, hits, misses, setLog[i].key).ret = Some(setLog[i].value)

C4_Witness ==
    /\ C4_Scenario
    /\ max_size = MaxCap
    /\ ~DictHas(cache, setLog[1].key)
    /\ Len(cache) = max_size

\* C5: a cache with max_size >= 1 never stores more than max_size entries.
C5_SizeBounded ==
    max_size >= 1 => Len(cache) <= max_size

\* a set of a new key arrived at a full cache
C5_Witness ==
    /\ tracked
    /\ Len(setLog) > max_size
    /\ Len(cache) = max_size

\* the keys of a dictionary in iteration order
KeyOrder(d) == [i \in 1..Len(d) |-> d[i].key]
\* the step is a direct get whose key is stored as k
GetOfKey(k) == \E key \in Titles : GetStep(key) /\ Lower(key) = k
\* the step appends an entry under a key that was absent
AppendsNewKey ==
    /\ cache' # <<>>
    /\ cache'[Len(cache')].key \notin DictKeys(cache)
\* the step is clear()
ClearStep == cache' = <<>> /\ hits' = 0 /\ misses' = 0 /\ tracked'

\* C28: nothing sweeps the cache: an expired entry leaves it only in a get of
\* its own key, as the first-inserted entry when a new key is set at capacity,
\* or in clear(); until then it counts toward max_size, and a set of a new
\* key at capacity removes the first-inserted entry, expired or not, and
\* nothing else
C28_NoSweepOfExpired ==
    [][/\ \A i \in 1..Len(cache) :
             (Expired(cache[i]) /\ cache[i].key \notin DictKeys(cache')) =>
                 \/ GetOfKey(cache[i].key)
                 \/ i = 1 /\ Len(cache) >= max_size /\ AppendsNewKey
                 \/ ClearStep
       /\ (AppendsNewKey /\ Len(cache) >= max_size) =>
             /\ Len(cache') = Len(cache)
             /\ \A i \in 1..(Len(cache) - 1) : cache'[i] = cache[i + 1]]_vars

\* the cache is full, its first-inserted entry is unexpired and a later one
\* has expired: the next new key evicts the unexpired entry
C28_Witness ==
    /\ Len(cache) = max_size
    /\ Len(cache) >= 2
    /\ ~Expired(cache[1])
    /\ \E i \in 2..Len(cache) : Expired(cache[i])
    /\ ~purged

\* C29: a set of a key that is present in any letter case evicts nothing,
\* even at capacity, and leaves the key at its place, with the time of the
\* set as its timestamp.  Every step either keeps the keys and their order,
\* or appends a new key (after the first-inserted entry was removed, if the
\* cache was full), or is a get that removes its own key, or is clear(): the
\* order of eviction is the order of insertion, whatever was read or set again
C29_ResetKeepsPlace ==
    [][\/ /\ KeyOrder(cache') = KeyOrder(cache)
          /\ \A i \in 1..Len(cache) : cache'[i] # cache[i] => cache'[i].timestamp = now
       \/ /\ AppendsNewKey
          /\ SubSeq(cache', 1, Len(cache') - 1) =
                 IF Len(cache) >= max_size THEN Tail(cache) ELSE cache
       \/ \E i \in 1..Len(cache) :
             /\ GetOfKey(cache[i].key)
             /\ cache' = SelectSeq(cache, LAMBDA e : e.key # cache[i].key)
       \/ ClearStep]_vars

\* a full cache whose first-inserted entry, the one a new key evicts, has
\* the most recent timestamp: it was set again after the others
C29_Witness ==
    /\ Len(cache) = max_size
    /\ Len(cache) >= 2
    /\ \A i \in 2..Len(cache) : cache[1].timestamp > cache[i].timestamp
    /\ ~purged

\* ==================================================== properties: RateLimiter
\* C6: whatever the interleaving of the callers, two successive releases of
\* wait_if_needed (updates of last_request_time) are at least min_interval
\* apart, so k calls span at least (k - 1) * min_interval.
C6_MinInterval ==
    /\ [][(released' = released + 1 /\ released >= 1) =>
            last_request_time' - last_request_time >= min_interval]_vars
    /\ [](released >= 1 =>
            last_request_time - first_release >= (released - 1) * min_interval)

\* one caller sleeps inside the lock while another one queues for it, after
\* two calls were already released
C6_Witness ==
    /\ released >= 2
    /\ \E t \in Threads, u \in Threads :
          /\ t # u
          /\ pc[t] = "limiter_sleep"
          /\ pc[u] = "acquire"

\* C24: every wait_if_needed call that was started returns, and when it has
\* returned its caller does not hold the lock: no caller is blocked for ever
\* and none leaves the lock taken, whatever the number of callers
C24_WaitCompletes ==
    /\ [](\A t \in Threads : pc[t] = "idle" => lock # t)
    /\ \A t \in Threads : (pc[t] # "idle") ~> (pc[t] = "idle" /\ lock # t)

\* a caller sleeps inside wait_if_needed holding the lock while every other
\* caller waits for the lock
C24_Witness ==
    \E t \in Threads :
        /\ Sleeping(t)
        /\ lock = t
        /\ \A u \in Threads \ {t} : pc[u] = "acquire"
        /\ now >= EndTime

\* ===================================================== properties: WikiClient
IsDone(t) == pc[t] = "done" /\ result[t] # None
Returned(t) == result[t][1]
\* the step is the call get_page(title) by thread t
CallStep(t, title) ==
    /\ pc[t] \in {"idle", "done"}
    /\ hits' + misses' = hits + misses + 1
    /\ page_title'[t] = title

\* C1: a get_page issued while a result for the title is cached and unexpired
\* makes no outbound request, does not enter the rate limiter and returns the
\* result of the call that fetched the title; together with a preceding
\* fetch of the title that needed no retry this is one request in total.
C1_CacheHit ==
    [][\A t \in Threads, title \in PageTitles :
        (/\ CallStep(t, title)
         /\ DictHas(cache, Lower(title))
         /\ ~Expired(DictGet(cache, Lower(title)))) =>
            /\ pc'[t] = "done"
            /\ requests_made'[t] = 0
            /\ limiter_calls'[t] = 0
            /\ UNCHANGED <<last_request_time, lock, released>>
            /\ result'[t] = fetched[Lower(title)]
            /\ Returned(t)'.success
            /\ (/\ IsDone(t)
                /\ Lower(page_title[t]) = Lower(title)
                /\ ~from_cache[t]
                /\ raised[t] = <<>>
                /\ Returned(t).success) =>
                    (/\ requests_made[t] + requests_made'[t] = 1
                     /\ result'[t] = result[t])]_vars

\* a call was answered from the cache, under a title spelled differently from
\* the one that was fetched
C1_Witness ==
    \E t \in Threads :
        /\ IsDone(t)
        /\ from_cache[t]
        /\ requests_made[t] = 0
        /\ Returned(t).success
        /\ Returned(t).page_title # page_title[t]

\* C2 as stated: every cached entry is a successful result, and a get_page
\* that returns a failure leaves the cache as it was when the call was issued.
C2_FailureLeavesCacheUnchanged ==
    /\ \A i \in 1..Len(cache) : cache[i].value.success
    /\ \A t \in Threads :
          (IsDone(t) /\ ~Returned(t).success) => cache = cache_at_call[t]

\* C2 amended: every cached entry is the successful result of the fetch that
\* stored it, and a get_page that returns a failure adds and changes no
\* entry; it removes at most the expired entry of the requested title.
C2_OnlySuccessCached ==
    /\ \A i \in 1..Len(cache) :
          /\ cache[i].value.success
          /\ fetched[cache[i].key] = Some(cache[i].value)
    /\ \A t \in Threads :
          (IsDone(t) /\ ~Returned(t).success) =>
              \/ cache = cache_at_call[t]
              \/ /\ DictHas(cache_at_call[t], Lower(page_title[t]))
                 /\ Expired(DictGet(cache_at_call[t], Lower(page_title[t])))
                 /\ cache = DictDel(cache_at_call[t], Lower(page_title[t]))

\* a failed call whose lookup purged the expired entry of its title
C2_Witness ==
    \E t \in Threads :
        /\ IsDone(t)
        /\ ~Returned(t).success
        /\ requests_made[t] > 0
        /\ cache # cache_at_call[t]

\* C7 as stated: after three timeouts followed by a response that would
\* succeed, the call has made three retries and returns that response.
C7_ThreeRetriesThenSuccess ==
    \A t \in Threads :
        (/\ IsDone(t)
         /\ raised[t] = <<"Timeout", "Timeout", "Timeout">>
         /\ forced = 0) =>
            (/\ requests_made[t] = 4
             /\ Returned(t).success)

C9_BackoffOneTwoFour ==
    \A t \in Threads :
        (IsDone(t) /\ Len(raised[t]) = max_retries) =>
            delays[t] = <<initial_delay,
                          initial_delay * backoff_factor,
                          initial_delay * backoff_factor * backoff_factor>>

\* C10: the attempt that is answered with an error payload ends the call at
\* once with the page-not-found failure: no request and no backoff sleep
\* follow it, so a call answered that way on its first attempt made exactly
\* one request.
C10_PageAbsentNotRetried ==
    /\ [][\A t \in Threads :
            got_error'[t] = got_error[t] + 1 =>
                /\ pc'[t] = "done"
                /\ result'[t] = Some(Failure(page_title[t], "PageNotFoundError"))
                /\ requests_made'[t] = requests_made[t] + 1
                /\ delays'[t] = delays[t]
                /\ wake'[t] = wake[t]]_vars
    /\ [](\A t \in Threads :
            (pc[t] = "done" /\ data[t] # None /\ "error" \in DOMAIN data[t][1]) =>
                /\ got_error[t] = 1
                /\ Returned(t) = Failure(page_title[t], "PageNotFoundError")
                /\ requests_made[t] = Len(raised[t]) + 1
                /\ Len(delays[t]) = Len(raised[t])
                /\ raised[t] = <<>> => (requests_made[t] = 1 /\ delays[t] = <<>>))

\* a first attempt was answered with the error payload
C10_Witness ==
    \E t \in Threads :
        /\ IsDone(t)
        /\ got_error[t] = 1
        /\ requests_made[t] = 1
        /\ delays[t] = <<>>
        /\ Returned(t) = Failure(page_title[t], "PageNotFoundError")

\* ============================================= properties: retrying transport
TransportFailures == {"Timeout", "ConnectionError"}
\* the call of thread t has ended for the method that issued the request
RequestEnded(t) == pc[t] \in {"done", "search_returned"}
\* the step is an attempt of thread t that raises exc
AttemptRaises(t, exc) ==
    /\ requests_made'[t] = requests_made[t] + 1
    /\ \/ raised'[t] = Append(raised[t], exc)
       \/ escaped[t] = None /\ escaped'[t] = Some(exc)

\* C11 as stated: only a timeout or a connection-level failure is followed by
\* a retry; any other failure of an attempt is the last thing its call did.
C11_OnlyTransportRetried ==
    \A t \in Threads :
        /\ pc[t] = "backoff" => last_exception[t][1] \in TransportFailures
        /\ \A i \in 1..Len(raised[t]) :
              raised[t][i] \notin TransportFailures =>
                  (i = Len(raised[t]) /\ RequestEnded(t))

\* C11 amended: an attempt that fails with any RequestException (a timeout, a
\* connection-level failure, but also an HTTP error status) is retried after
\* a backoff sleep unless it was the last attempt, which ends the request with
\* NetworkError; an attempt that fails with anything else is not retried and
\* its exception surfaces at once.
C11_EveryRequestExceptionRetried ==
    [][\A t \in Threads, exc \in RequestException \cup OtherExceptions :
        AttemptRaises(t, exc) =>
            IF exc \in RequestException
            THEN /\ raised'[t] = Append(raised[t], exc)
                 /\ escaped'[t] = None
                 /\ IF attempt[t] < max_retries - 1
                    THEN /\ pc'[t] = "backoff"
                         /\ wake'[t] > now
                         /\ result'[t] = None
                    ELSE /\ RequestEnded(t)'
                         /\ network_error'[t] # None
            ELSE /\ RequestEnded(t)'
                 /\ escaped'[t] = Some(exc)
                 /\ raised'[t] = raised[t]
                 /\ delays'[t] = delays[t]
                 /\ network_error'[t] = None]_vars

\* an attempt that failed with an HTTP error status was followed by another
\* attempt, and an attempt that raised something else ended its call
C11_Witness ==
    \E t \in Threads :
        /\ Len(raised[t]) >= 1
        /\ raised[t][1] = "HTTPError"
        /\ requests_made[t] = 2
        /\ escaped[t] = Some("ValueError")

\* C12 as stated: the NetworkError raised when the retries are exhausted
\* carries the API URL the request was sent to in url, and the exception of
\* the last failed attempt in original_error.
C12_NetworkErrorCarriesUrl ==
    \A t \in Threads :
        network_error[t] # None =>
            /\ network_error[t][1].url = self.api_url
            /\ network_error[t][1].original_error = raised[t][Len(raised[t])]

\* ======================================= properties: rate limiting of attempts
\* C27: every outbound attempt of a client, first attempts and retries alike,
\* is sent right after a wait_if_needed of its own: session.get is reached
\* only from the end of wait_if_needed, the attempt that is sent is the
\* n-th while the limiter was entered n times, and the limiter grants an
\* attempt no earlier than min_interval after it granted the previous one
C27_EveryAttemptWaits ==
    [][\A t \in ClientThreads :
          /\ requests_made'[t] = requests_made[t] + 1 =>
                /\ pc[t] = "send"
                /\ limiter_calls[t] = requests_made[t] + 1
                /\ limiter_calls[t] = attempt[t] + 1
                /\ now >= last_request_time
          /\ (pc'[t] = "send" /\ pc[t] # "send") =>
                /\ pc[t] = "update"
                /\ last_request_time' = now
                /\ now - last_request_time >= min_interval]_vars

\* a retry is about to be sent, after a backoff shorter than min_interval:
\* its own wait_if_needed granted it min_interval after the failed attempt
C27_Witness ==
    \E t \in ClientThreads :
        /\ pc[t] = "send"
        /\ attempt[t] >= 1
        /\ requests_made[t] = attempt[t]
        /\ delays[t] # <<>>
        /\ delays[t][Len(delays[t])] < min_interval
        /\ now = last_request_time

\* ================================================= properties: search
Searching(t) == running[t] \in {Some("search"), Some("smart_search")}
\* the search() call that is running or was the last to return
LastSearch == searched[Len(searched)]
\* the hits a JSON document carries under query.search
HitsOf(d) ==
    IF "query" \in DOMAIN d /\ "search" \in DOMAIN d.query THEN d.query.search ELSE <<>>

\* C13: search never raises. When the request was answered it returns
\* success=true with the hits of the response and count = their number; when
\* the retries were exhausted or anything else was raised it returns
\* success=false with an error string and the searched term.
C13_SearchNeverRaises ==
    \A t \in Threads :
        Searching(t) =>
            /\ thrown[t] = None
            /\ pc[t] \in {"search_returned", "done"} =>
                  /\ LastSearch.result # None
                  /\ LET r == LastSearch.result[1]
                     IN  IF data[t] # None
                         THEN /\ r.success
                              /\ r.results = HitsOf(data[t][1])
                              /\ r.count = Len(HitsOf(data[t][1]))
                              /\ r.query = LastSearch.term
                         ELSE /\ ~r.success
                              /\ r.query = LastSearch.term
                              /\ r.error = IF Len(raised[t]) = max_retries
                                           THEN "NetworkError"
                                           ELSE "Unexpected error"
                              /\ Len(raised[t]) = max_retries \/ escaped[t] # None
            /\ (running[t] = Some("search") /\ pc[t] = "done") =>
                  result[t] = LastSearch.result

\* a search whose request raised something unexpected returned the failure
C13_Witness ==
    \E t \in Threads :
        /\ running[t] = Some("search")
        /\ pc[t] = "done"
        /\ escaped[t] = Some("ValueError")
        /\ result[t] = Some(search_failure(query, "Unexpected error"))

\* C14 as stated: whatever integer limit search or smart_search is called
\* with, the srlimit of every outbound search request is within [1, 50].
C14_SrlimitClamped ==
    \A t \in Threads :
        (Searching(t) /\ requests_made[t] > 0) =>
            (params.srlimit >= 1 /\ params.srlimit <= 50)

C16_EmptyParseRaisesPageNotFound ==
    \A t \in Threads :
        (/\ running[t] = Some("get_page")
         /\ pc[t] = "done"
         /\ data[t] = Some([parse |-> EmptyDict])) =>
            /\ thrown[t] = Some("PageNotFoundError")
            /\ ~DictHas(cache, Lower(page_title[t]))

\* ================================================= properties: smart_search
SmartSearching(t) == running[t] = Some("smart_search")
\* a search result with at least one hit
Hit(res) == res # None /\ res[1].success /\ res[1].count > 0
\* the result smart_search returned is search result s with its metadata
Annotated(r, s, term, index) ==
    /\ r.success = s.success
    /\ r.query = s.query
    /\ IF s.success
       THEN r.count = s.count /\ r.results = s.results
       ELSE r.error = s.error
    /\ r.original_query = query
    /\ r.strategy_used = term
    /\ r.strategy_index = index

\* C17: smart_search searches the candidate terms in list order; a candidate
\* whose search succeeds with count > 0 ends the call, which returns that
\* result with strategy_used = the term and strategy_index = its index; no
\* search follows a hit, and the call returns from the candidate loop only
\* with a hit.
C17_FirstHitInOrder ==
    /\ [](\A t \in Threads :
            SmartSearching(t) =>
                /\ \A j \in 1..Len(searched) :
                      /\ j <= Len(search_terms) => searched[j].term = search_terms[j]
                      /\ j < Len(searched) => ~Hit(searched[j].result)
                /\ (pc[t] = "done" /\ Len(searched) <= Len(search_terms)) =>
                      /\ Hit(LastSearch.result)
                      /\ result[t] # None
                      /\ Annotated(Returned(t), LastSearch.result[1],
                                   search_terms[Len(searched)], Len(searched) - 1))
    /\ [][\A t \in Threads :
            (/\ SmartSearching(t)
             /\ pc[t] = "search_returned"
             /\ pc'[t] # "search_returned"
             /\ Len(searched) <= Len(search_terms)
             /\ Hit(LastSearch.result)) =>
                (pc'[t] = "done" /\ searched' = searched)]_vars

\* the second candidate was a hit after the first one failed or found nothing
C17_Witness ==
    \E t \in Threads :
        /\ SmartSearching(t)
        /\ pc[t] = "done"
        /\ Len(search_terms) = 3
        /\ Len(searched) = 2
        /\ Returned(t).strategy_index = 1
        /\ Returned(t).strategy_used = search_terms[2]
        /\ Returned(t).count > 0

\* C18: when the search of every candidate term found nothing or failed,
\* smart_search makes exactly one more search, on the original query, and
\* returns what it yields, hits or not, failed or not, without raising, with
\* strategy_used = the original query; the call made Len(search_terms) + 1
\* searches.
C18_FallbackToOriginalQuery ==
    \A t \in Threads :
        SmartSearching(t) =>
            /\ Len(searched) <= Len(search_terms) + 1
            /\ Len(searched) = Len(search_terms) + 1 => LastSearch.term = query
            /\ (/\ pc[t] = "done"
                /\ \A j \in 1..Len(searched) :
                      j <= Len(search_terms) => ~Hit(searched[j].result)) =>
                  /\ Len(searched) = Len(search_terms) + 1
                  /\ thrown[t] = None
                  /\ result[t] # None
                  /\ LastSearch.result # None
                  /\ Annotated(Returned(t), LastSearch.result[1], query,
                               Len(search_terms))

\* two candidates found nothing or failed and the search of the original
\* query failed as well
C18_Witness ==
    \E t \in Threads :
        /\ SmartSearching(t)
        /\ pc[t] = "done"
        /\ Len(search_terms) = 2
        /\ Len(searched) = 3
        /\ ~Returned(t).success
        /\ Returned(t).strategy_used = query

\* ========================================================== preprocess_query
\* the queries preprocess_query is called with: one phrase or two phrases
\* joined by a blank, after up to MaxBlanks leading blanks
MaxBlanks == 1
Phrases == {"what does sebastian like", "Gifts for Sam", "spring birthday",
            "summer crops", "where to find amethyst", "pantry bundle",
            "when is the egg festival", "requirements for quest",
            "cave", "the", ""}
RECURSIVE Blanks(_)
Blanks(n) == IF n = 0 THEN "" ELSE " " \o Blanks(n - 1)
Queries ==
    {Blanks(n) \o a : n \in 0..MaxBlanks, a \in Phrases}
        \cup {Blanks(n) \o a \o " " \o b : n \in 0..MaxBlanks, a \in Phrases, b \in Phrases}

\* search_terms = preprocess_query(query)
Preprocess(t) ==
    /\ pc[t] = "idle"
    /\ pc' = [pc EXCEPT ![t] = "done"]
    /\ search_terms' = preprocess_query(query)
    /\ UNCHANGED <<now, cacheVars, directVars, limiterVars, limiterLog, wake, callVars,
                   query, limit, strategy_index, params, searched, classVars>>

InitPreprocess ==
    /\ InitCommon
    /\ ttl_seconds = 1
    /\ max_size = 1
    /\ min_interval = 1
    /\ query \in Queries
    /\ page_categories = <<>>
    /\ page_name = ""
    /\ markup = None

NextPreprocess == \E t \in ClientThreads : Preprocess(t)

SpecPreprocess == InitPreprocess /\ [][NextPreprocess]_vars

\* ============================================= properties: preprocess_query
\* the rules in the order the claim gives them
RuleOrder == <<"gift", "birthday", "crop", "location", "bundle", "festival", "quest">>
RuleTerms(name, query_lower) ==
    CASE name = "gift" -> gift_rule(query_lower)
      [] name = "birthday" -> birthday_rule(query_lower)
      [] name = "crop" -> crop_rule(query_lower)
      [] name = "location" -> location_rule(query_lower)
      [] name = "bundle" -> bundle_rule(query_lower)
      [] name = "festival" -> festival_rule(query_lower)
      [] name = "quest" -> quest_rule(query_lower)
MatchingRules(query_lower) ==
    {k \in 1..Len(RuleOrder) : RuleTerms(RuleOrder[k], query_lower) # None}
FirstRule(matching) == CHOOSE k \in matching : \A j \in matching : k <= j
Preprocessed(t) == pc[t] = "done"
\* the gift phrases among Phrases and the name each asks about
GiftPhrases == {[text |-> "what does sebastian like", npc |-> "Sebastian"],
                [text |-> "gifts for sam", npc |-> "Sam"]}
GiftNames(query_lower) ==
    {p.npc : p \in {g \in GiftPhrases : Contains(query_lower, g.text)}}

skill_names == <<"farming", "mining", "foraging", "fishing", "combat", "luck">>
npc_names == <<"abigail", "alex", "caroline", "clint", "demetrius",
               "elliott", "emily", "evelyn", "george", "gus",
               "haley", "harvey", "jas", "jodi", "kent",
               "leah", "lewis", "linus", "marnie", "maru",
               "pam", "penny", "pierre", "robin", "sam",
               "sebastian", "shane", "vincent", "willy", "wizard">>
\* `x in list`
InList(x, list) == \E i \in 1..Len(list) : list[i] = x
\* `any(w in c for c in cat_lower)` for one of the words w
any_category(cat_lower, words) ==
    \E i \in 1..Len(cat_lower) : \E w \in words : Contains(cat_lower[i], w)

\* PRIORITY 1: exact title matches; None when the title decides nothing
exact_title_type(title_lower) ==
    IF title_lower = "quests" THEN Some("quests")
    ELSE IF title_lower = "achievements" THEN Some("achievements")
    ELSE IF InList(title_lower, skill_names) THEN Some("skill")
    ELSE None

\* PRIORITY 2: category-based detection; None when no category decides
category_type(cat_lower) ==
    IF any_category(cat_lower, {"quest"}) THEN Some("quests")
    ELSE IF any_category(cat_lower, {"achievement"}) THEN Some("achievements")
    ELSE IF \E i \in 1..Len(skill_names) : InList(skill_names[i], cat_lower) THEN Some("skill")
    ELSE IF any_category(cat_lower, {"crop"}) THEN Some("crop")
    ELSE IF any_category(cat_lower, {"villager", "npc"}) THEN Some("npc")
    ELSE IF any_category(cat_lower, {"bundle"}) THEN Some("bundle")
    ELSE IF any_category(cat_lower, {"fish"}) THEN Some("fish")
    ELSE IF any_category(cat_lower, {"recipe", "cooking", "craftable"}) THEN Some("recipe")
    ELSE IF any_category(cat_lower, {"artifact"}) THEN Some("artifact")
    ELSE IF any_category(cat_lower, {"mineral"}) THEN Some("mineral")
    ELSE IF any_category(cat_lower, {"monster"}) THEN Some("monster")
    ELSE None

\* Fallback: the page title, else "item"
title_type(title_lower) ==
    IF Contains(title_lower, "bundle") THEN "bundle"
    ELSE IF \E i \in 1..Len(npc_names) : Contains(title_lower, npc_names[i]) THEN "npc"
    ELSE "item"

detect_page_type_category_first(categories, title) ==
    LET cat_lower == [i \in 1..Len(categories) |-> str_lower(categories[i])]
        title_lower == str_lower(title)
    IN  IF category_type(cat_lower) # None THEN category_type(cat_lower)[1]
        ELSE IF exact_title_type(title_lower) # None THEN exact_title_type(title_lower)[1]
        ELSE title_type(title_lower)

detect_page_type(categories, title) ==
    LET cat_lower == [i \in 1..Len(categories) |-> str_lower(categories[i])]
        title_lower == str_lower(title)
    IN  IF exact_title_type(title_lower) # None THEN exact_title_type(title_lower)[1]
        ELSE IF category_type(cat_lower) # None THEN category_type(cat_lower)[1]
        ELSE title_type(title_lower)

\* the pages detect_page_type is called with: a title and up to MaxCategories
\* categories
MaxCategories == 2
PageNames == {"Quests", "Achievements", "Fishing", "Parsnip", "Pantry Bundle", "Sebastian", ""}
Categories == {"Quests", "Achievements", "Fishing", "Crops", "Villagers", "NPCs",
               "Bundles", "Fish", "Recipes", "Cooking", "Craftable items",
               "Artifacts", "Minerals", "Monsters", "Items"}
CategoryLists == UNION {[1..n -> Categories] : n \in 0..MaxCategories}

\* page_type = detect_page_type(categories, page_title)
Classify(t) ==
    /\ pc[t] = "idle"
    /\ pc' = [pc EXCEPT ![t] = "done"]
    /\ page_type' = detect_page_type(page_categories, page_name)
    /\ UNCHANGED <<now, cacheVars, directVars, limiterVars, limiterLog, wake, callVars,
                   searchVars, page_categories, page_name, parseVars>>

InitClassify ==
    /\ InitCommon
    /\ ttl_seconds = 1
    /\ max_size = 1
    /\ min_interval = 1
    /\ query = ""
    /\ page_name \in PageNames
    /\ page_categories \in CategoryLists
    /\ markup = None

NextClassify == \E t \in ClientThreads : Classify(t)

SpecClassify == InitClassify /\ [][NextClassify]_vars

\* ============================================= properties: detect_page_type
Classified(t) == pc[t] = "done"
\* the claim's rules in its order: the tag, and what has to occur in the
\* lower-cased title (exactly) or in a lower-cased category (as a substring;
\* for skill, exactly)
TitleRules ==
    <<[tag |-> "quests", titles |-> {"quests"}],
      [tag |-> "achievements", titles |-> {"achievements"}],
      [tag |-> "skill", titles |-> {"farming", "mining", "foraging", "fishing", "combat", "luck"}]>>
CategoryRules ==
    <<[tag |-> "quests", exact |-> FALSE, words |-> {"quest"}],
      [tag |-> "achievements", exact |-> FALSE, words |-> {"achievement"}],
      [tag |-> "skill", exact |-> TRUE,
       words |-> {"farming", "mining", "foraging", "fishing", "combat", "luck"}],
      [tag |-> "crop", exact |-> FALSE, words |-> {"crop"}],
      [tag |-> "npc", exact |-> FALSE, words |-> {"villager", "npc"}],
      [tag |-> "bundle", exact |-> FALSE, words |-> {"bundle"}],
      [tag |-> "fish", exact |-> FALSE, words |-> {"fish"}],
      [tag |-> "recipe", exact |-> FALSE, words |-> {"recipe", "cooking", "craftable"}],
      [tag |-> "artifact", exact |-> FALSE, words |-> {"artifact"}],
      [tag |-> "mineral", exact |-> FALSE, words |-> {"mineral"}],
      [tag |-> "monster", exact |-> FALSE, words |-> {"monster"}]>>
LowerCategories == {str_lower(page_categories[i]) : i \in 1..Len(page_categories)}
TitleRuleMatches(k) == str_lower(page_name) \in TitleRules[k].titles
CategoryRuleMatches(k) ==
    \E c \in LowerCategories :
        \E w \in CategoryRules[k].words :
            IF CategoryRules[k].exact THEN c = w ELSE Contains(c, w)
MatchingTitleRules == {k \in 1..Len(TitleRules) : TitleRuleMatches(k)}
MatchingCategoryRules == {k \in 1..Len(CategoryRules) : CategoryRuleMatches(k)}
Least(S) == CHOOSE k \in S : \A j \in S : k <= j
HasCategory(c) == \E i \in 1..Len(page_categories) : page_categories[i] = c

\* C20: detect_page_type returns the tag of the first matching exact-title
\* rule; if there is none, of the first matching category rule in the order
\* quest, achievement, skill, crop, npc, bundle, fish, recipe, artifact,
\* mineral, monster; if there is none, "bundle" or "npc" by the title
\* substrings; otherwise "item". Title "Fishing" with category "Fish" is
\* "skill"; categories "Crops" and "Fish" give "crop" when no earlier rule
\* (exact title, quest, achievement or skill category) matches.
C20_FirstMatchingTypeRule ==
    \A t \in Threads :
        Classified(t) =>
            /\ IF MatchingTitleRules # {}
               THEN page_type = TitleRules[Least(MatchingTitleRules)].tag
               ELSE IF MatchingCategoryRules # {}
               THEN page_type = CategoryRules[Least(MatchingCategoryRules)].tag
               ELSE IF Contains(str_lower(page_name), "bundle")
               THEN page_type = "bundle"
               ELSE IF \E i \in 1..Len(npc_names) : Contains(str_lower(page_name), npc_names[i])
               THEN page_type = "npc"
               ELSE page_type = "item"
            /\ (page_name = "Fishing" /\ HasCategory("Fish")) => page_type = "skill"
            /\ (/\ HasCategory("Crops") /\ HasCategory("Fish")
                /\ ~HasCategory("Quests") /\ ~HasCategory("Achievements")
                /\ ~HasCategory("Fishing")
                /\ page_name \in {"Parsnip", "Pantry Bundle", "Sebastian", ""}) =>
                  page_type = "crop"

\* the page titled "Fishing" with the category "Fish" was tagged
C20_Witness ==
    \E t \in Threads :
        /\ Classified(t)
        /\ page_name = "Fishing"
        /\ page_categories = <<"Fish", "Crops">>
        /\ page_type = "skill"

\* ================================================================ extractors
\* An extractor is given the BeautifulSoup tree of a page. The model keeps of
\* the tree what the extractor depends on: the steps that raise on this page
\* (failing) and, for the skill and bundle extractors, the tables they read.
\* The exception a failing step raises; str(e) is its name.
StepError == "ValueError"
warn(d, text) ==
    [d EXCEPT !.parsing_warnings = Append(@, text \o ": " \o StepError)]
\* dict: d[k].extend(items), with d[k] = [] first when k is missing
DictExtend(d, k, items) ==
    IF k \in DOMAIN d THEN [d EXCEPT ![k] = @ \o items] ELSE d @@ (k :> items)
\* dict: d[k] = v
DictAssign(d, k, v) ==
    IF k \in DOMAIN d THEN [d EXCEPT ![k] = v] ELSE d @@ (k :> v)

\* str.find(sub, start): the least 0-based index from start on, or -1
str_find(s, sub, start) ==
    LET at == {i \in start..(Len(s) - Len(sub)) : SubSeq(s, i + 1, i + Len(sub)) = sub}
    IN  IF at = {} THEN -1 ELSE CHOOSE i \in at : \A j \in at : i <= j
\* s[a:b]
str_slice(s, a, b) == SubSeq(s, a + 1, b)
\* int(digits)
RECURSIVE str_int(_)
str_int(s) ==
    IF s = "" THEN 0
    ELSE 10 * str_int(SubSeq(s, 1, Len(s) - 1)) + (IndexIn(Digits, CharAt(s, Len(s))) - 1)
\* the longest run of digits of s from the 1-based position i
RECURSIVE DigitRun(_, _)
DigitRun(s, i) ==
    IF i <= Len(s) /\ CharAt(s, i) \in CharsOf(Digits)
    THEN CharAt(s, i) \o DigitRun(s, i + 1)
    ELSE ""
\* re.search(r'Level (\d+)', cell_text): group 1, or None
level_match(cell_text) ==
    LET at == {i \in 1..(Len(cell_text) - 5) :
                  /\ SubSeq(cell_text, i, i + 5) = "Level "
                  /\ DigitRun(cell_text, i + 6) # ""}
    IN  IF at = {} THEN None
        ELSE Some(DigitRun(cell_text, (CHOOSE i \in at : \A j \in at : i <= j) + 6))

\* -------------------------------------------------------- parse_skill_data
profession_keywords ==
    <<"Rancher", "Tiller", "Coopmaster", "Artisan", "Shepherd", "Agriculturist",
      "Miner", "Geologist", "Blacksmith", "Prospector", "Excavator", "Gemologist",
      "Forester", "Gatherer", "Lumberjack", "Tapper", "Botanist", "Tracker",
      "Fisher", "Trapper", "Angler", "Pirate", "Mariner", "Luremaster",
      "Fighter", "Scout", "Brute", "Defender", "Acrobat", "Desperado">>
label_texts == {"Crafting Recipes:", "Crafting / Cooking Recipes:", "Choose a Profession:"}

\* a table row is [th |-> texts of its th cells, td |-> its td cells], a td
\* cell [text |-> its text, links |-> texts of its links]; the th cells come
\* first in the row
RECURSIVE concat(_)
concat(texts) == IF texts = <<>> THEN "" ELSE texts[1] \o concat(Tail(texts))
\* row.get_text()
row_text(row) == concat(row.th) \o concat([c \in 1..Len(row.td) |-> row.td[c].text])
\* cell.get_text(strip=True)
cell_text_of(cell) == str_strip(cell.text)
\* `any(prof in cell_text for prof in profession_keywords)`
has_profession_keyword(cell_text) ==
    \E k \in 1..Len(profession_keywords) : Contains(cell_text, profession_keywords[k])

\* where the description that starts at `from` ends: at the nearest other
\* keyword found from there on, or at the end of the cell
description_end(cell_text, k, from) ==
    LET next_idx == {str_find(cell_text, profession_keywords[o], from) :
                        o \in (1..Len(profession_keywords)) \ {k}} \ {-1}
        ends == next_idx \union {Len(cell_text)}
    IN  CHOOSE end_idx \in ends : \A other \in ends : end_idx <= other
\* professions_found of a cell: name and description, in keyword order
professions_found(cell_text) ==
    LET named == SelectSeq([k \in 1..Len(profession_keywords) |-> k],
                           LAMBDA k : Contains(cell_text, profession_keywords[k]))
    IN  [i \in 1..Len(named) |->
            LET prof_name == profession_keywords[named[i]]
                from == str_find(cell_text, prof_name, 0) + Len(prof_name)
            IN  [name |-> prof_name,
                 description |->
                     str_strip(str_slice(cell_text, from,
                                         description_end(cell_text, named[i], from)))]]

\* the level numbers of a header row
header_levels(th) ==
    LET matched == SelectSeq(th, LAMBDA cell : level_match(str_strip(cell)) # None)
    IN  [i \in 1..Len(matched) |-> str_int(level_match(str_strip(matched[i]))[1])]
is_header_row(row) == row.th # <<>> /\ Contains(row_text(row), "Level")
SeqMax(s) == CHOOSE x \in {s[i] : i \in 1..Len(s)} : \A i \in 1..Len(s) : s[i] <= x

\* `row_only_has_professions`: one or two non-empty cells, each with a keyword
row_only_has_professions(cells) ==
    LET non_empty_cells == SelectSeq(cells, LAMBDA cell : cell_text_of(cell) # "")
    IN  /\ Len(non_empty_cells) <= 2
        /\ Len(non_empty_cells) > 0
        /\ \A i \in 1..Len(non_empty_cells) :
              has_profession_keyword(cell_text_of(non_empty_cells[i]))

\* the level such a row is attributed to, `max(current_levels) == 10`
profession_row_level_any_group(current_levels) ==
    IF current_levels # <<>> THEN Some(SeqMax(current_levels)) ELSE None

profession_row_level(current_levels) ==
    IF current_levels # <<>> /\ SeqMax(current_levels) = 10 THEN Some(10) ELSE None

\* a row of professions only: every cell with a keyword adds its professions
\* to one level, whatever its column
RECURSIVE profession_row(_, _, _, _)
profession_row(cells, c, level, d) ==
    IF c > Len(cells)
    THEN d
    ELSE LET cell_text == cell_text_of(cells[c])
             found == professions_found(cell_text)
         IN  profession_row(cells, c + 1, level,
                 IF cell_text # "" /\ has_profession_keyword(cell_text) /\ found # <<>>
                 THEN [d EXCEPT !.professions = DictExtend(d.professions, level, found)]
                 ELSE d)

\* normal parsing: the column index c (1-based here) gives the level
content_cell(cell, c, current_levels, profession_columns, d) ==
    LET level_num == IF c <= Len(current_levels)
                     THEN current_levels[c]
                     ELSE current_levels[Len(current_levels)]
        cell_text == cell_text_of(cell)
        is_profession_column ==
            c \in profession_columns \/ (c > Len(current_levels) /\ profession_columns # {})
        has_profession == is_profession_column /\ has_profession_keyword(cell_text)
        found == professions_found(cell_text)
        stripped == [i \in 1..Len(cell.links) |-> str_strip(cell.links[i])]
        recipes == SelectSeq(stripped, LAMBDA recipe_name : Len(recipe_name) > 1)
    IN  IF c > Len(current_levels) /\ level_num = 0
        THEN d
        ELSE IF cell_text = "" \/ cell_text \in label_texts
        THEN d
        ELSE IF has_profession
        THEN IF found # <<>>
             THEN [d EXCEPT !.professions = DictExtend(d.professions, level_num, found)]
             ELSE d
        ELSE IF c <= Len(current_levels) /\ recipes # <<>>
        THEN [d EXCEPT !.levels = DictAssign(d.levels, level_num, [recipes |-> recipes])]
        ELSE d

RECURSIVE content_cells(_, _, _, _, _)
content_cells(cells, c, current_levels, profession_columns, d) ==
    IF c > Len(cells)
    THEN d
    ELSE content_cells(cells, c + 1, current_levels, profession_columns,
                       content_cell(cells[c], c, current_levels, profession_columns, d))

content_row(row, current_levels, profession_columns, d) ==
    IF row_only_has_professions(row.td) /\ profession_row_level(current_levels) # None
    THEN profession_row(row.td, 1, profession_row_level(current_levels)[1], d)
    ELSE content_cells(row.td, 1, current_levels, profession_columns, d)

\* the levels in force after a row: a header row replaces them
row_levels(row, current_levels) ==
    IF is_header_row(row) THEN header_levels(row.th) ELSE current_levels

\* the columns of the label row at row_idx that offer a profession choice
label_profession_columns(rows, row_idx) ==
    IF row_idx <= Len(rows)
    THEN {c \in 1..Len(rows[row_idx].td) :
             Contains(rows[row_idx].td[c].text, "Choose a Profession")}
    ELSE {}

\* `while row_idx < len(rows)`, row_idx 1-based here
RECURSIVE skill_rows(_, _, _, _)
RECURSIVE skill_content_rows(_, _, _, _, _)
skill_rows(rows, row_idx, current_levels, d) ==
    IF row_idx > Len(rows)
    THEN d
    ELSE IF is_header_row(rows[row_idx]) /\ row_levels(rows[row_idx], current_levels) # <<>>
         THEN IF row_idx + 1 > Len(rows)
              THEN d
              ELSE skill_content_rows(rows, row_idx + 2,
                                      row_levels(rows[row_idx], current_levels),
                                      label_profession_columns(rows, row_idx + 1), d)
         ELSE skill_rows(rows, row_idx + 1, row_levels(rows[row_idx], current_levels), d)
skill_content_rows(rows, row_idx, current_levels, profession_columns, d) ==
    IF row_idx > Len(rows)
    THEN d
    ELSE IF is_header_row(rows[row_idx])
         THEN skill_rows(rows, row_idx, current_levels, d)
         ELSE skill_content_rows(rows, row_idx + 1, current_levels, profession_columns,
                  content_row(rows[row_idx], current_levels, profession_columns, d))

\* the first wikitable whose first row names "Level 1" or "Level 2", or None;
\* a table is the sequence of its rows
find_level_table(tables) ==
    LET found == SelectSeq(tables, LAMBDA rows :
                     /\ rows # <<>>
                     /\ (Contains(row_text(rows[1]), "Level 1")
                            \/ Contains(row_text(rows[1]), "Level 2")))
    IN  IF found = <<>> THEN None ELSE Some(found[1])

\* parse_skill_data(soup, page_title): m.tables are the wikitables of the page
parse_skill_data(m, title) ==
    LET d == [type |-> "skill", name |-> title, levels |-> EmptyDict,
              professions |-> EmptyDict, parsing_warnings |-> <<>>]
    IN  IF "level progression table" \in m.failing
        THEN Returns(warn(d, "Failed to find level progression table"))
        ELSE IF find_level_table(m.tables) = None
        THEN Returns(d)
        ELSE IF Len(find_level_table(m.tables)[1]) < 3
        THEN Returns(d)
        ELSE IF "level rows" \in m.failing
        THEN Raises(StepError)
        ELSE Returns(skill_rows(find_level_table(m.tables)[1], 1, <<>>, d))

\* ------------------------------------------------------------ a second client
\* character codes of the titles given to a cache
ord(c) ==
    IF c \in UpperChars THEN 64 + IndexIn(UpperCase, c)
    ELSE IF c \in LowerChars THEN 96 + IndexIn(LowerCase, c)
    ELSE 32
codes(s) == [i \in 1..Len(s) |-> ord(CharAt(s, i))]

\* WikiClient.__init__: cache_ttl and cache_max_size when not given
cache_ttl == 3600
cache_max_size == 100

\* WikiClient(api_url): the state a constructed client starts with
WikiClient_shared(api_url) ==
    [api_url |-> api_url, cache |-> cache, hits |-> hits, misses |-> misses,
     last_request_time |-> last_request_time]

WikiClient(api_url) ==
    [api_url |-> api_url, cache |-> <<>>, hits |-> 0, misses |-> 0,
     last_request_time |-> 0]

\* the network for one get_page: every attempt fails, or the first one is
\* answered with the document d
Down == [down |-> TRUE]
Answer(d) == [down |-> FALSE, response |-> d]
\* seconds the retry wrapper sleeps before it gives up
backoff_total == delay(0) + delay(1) + delay(2)

\* wait_if_needed: the seconds it sleeps at the time `at`
client_wait_time(last, at) == IF at - last < min_interval THEN min_interval - (at - last) ELSE 0

\* client.get_page(title) run to its end on the client cl: the dictionary it
\* returns, the client it leaves, the outbound requests it made, the seconds
\* it waited in the rate limiter and the seconds it took
client_get_page(cl, title, net) ==
    LET r == get(cl.cache, cl.hits, cl.misses, codes(title))
        looked == [cl EXCEPT !.cache = r.cache, !.hits = r.hits, !.misses = r.misses]
        waited == client_wait_time(cl.last_request_time, now)
    IN  IF r.ret # None
        THEN [result |-> r.ret[1], client |-> looked, requests |-> 0,
              waited |-> 0, elapsed |-> 0]
        ELSE IF net.down
        THEN [result |-> get_page_except(title, "NetworkError").returns,
              client |-> [looked EXCEPT !.last_request_time = now + waited + backoff_total],
              requests |-> max_retries + 1,
              waited |-> waited, elapsed |-> waited + backoff_total]
        ELSE [result |-> get_page_result(title, net.response),
              client |-> [looked EXCEPT
                             !.last_request_time = now + waited,
                             !.cache = cache_after_response(r.cache, codes(title), net.response)],
              requests |-> 1, waited |-> waited, elapsed |-> waited]

\* ------------------------------------------------------- parse_bundle_data
\* bundles_soup.find(string=re.compile(re.escape(page_title), re.I)): the
\* first string of the document that contains the title in any letter case
find_string(doc, title) ==
    LET at == {i \in 1..Len(doc.strings) :
                  Contains(str_lower(doc.strings[i].text), str_lower(title))}
    IN  IF at = {} THEN None ELSE Some(doc.strings[CHOOSE i \in at : \A j \in at : i <= j])

category_links == {"Spring", "Summer", "Fall", "Winter", "Crops", "Foraging"}

\* the item links of the cells of one row of the bundle's table
RECURSIVE listed_items(_, _, _)
listed_items(links, title, requirements) ==
    IF links = <<>>
    THEN requirements
    ELSE LET item_name == str_strip(links[1])
         IN  listed_items(Tail(links), title,
                 IF /\ item_name # ""
                    /\ item_name # title
                    /\ item_name \notin category_links
                    /\ \A i \in 1..Len(requirements) : requirements[i].item # item_name
                 THEN Append(requirements, [item |-> item_name, quantity |-> 1])
                 ELSE requirements)

\* the links of all cells of a row, in order
RECURSIVE flatten(_)
flatten(lists) == IF lists = <<>> THEN <<>> ELSE lists[1] \o flatten(Tail(lists))
row_links(row) == flatten([c \in 1..Len(row.td) |-> row.td[c].links])

RECURSIVE listed_rows(_, _, _)
listed_rows(rows, title, requirements) ==
    IF rows = <<>>
    THEN requirements
    ELSE listed_rows(Tail(rows), title,
             IF Contains(str_lower(row_text(rows[1])), "reward")
             THEN requirements
             ELSE listed_items(row_links(rows[1]), title, requirements))

\* re.search(r'(\d+)', qty_text): the first run of digits, or None
first_number(qty_text) ==
    LET at == {i \in 1..Len(qty_text) : CharAt(qty_text, i) \in CharsOf(Digits)}
    IN  IF at = {} THEN None
        ELSE Some(DigitRun(qty_text, CHOOSE i \in at : \A j \in at : i <= j))

\* one row of a requirements table
requirement_of(row) ==
    LET item_name == cell_text_of(row.td[1])
        match == IF Len(row.td) > 1 THEN first_number(cell_text_of(row.td[2])) ELSE None
        quantity == IF match # None THEN str_int(match[1]) ELSE 1
    IN  IF row.td # <<>> /\ item_name # ""
        THEN <<[item |-> item_name, quantity |-> quantity]>>
        ELSE <<>>

\* the th texts of a table, stripped and lower-cased
table_headers(rows) ==
    {str_lower(str_strip(th)) : th \in UNION {{rows[i].th[j] : j \in 1..Len(rows[i].th)} :
                                                 i \in 1..Len(rows)}}

\* "Original parsing logic": the rows after the first of every table with an
\* "item" or "source" header
RECURSIVE scraped_rows(_)
scraped_rows(rows) ==
    IF rows = <<>> THEN <<>> ELSE requirement_of(rows[1]) \o scraped_rows(Tail(rows))

RECURSIVE scraped_tables(_)
scraped_tables(tables) ==
    IF tables = <<>>
    THEN <<>>
    ELSE (IF table_headers(tables[1]) \cap {"item", "source"} # {}
          THEN scraped_rows(Tail(tables[1]))
          ELSE <<>>) \o scraped_tables(Tail(tables))

\* the second try block of parse_bundle_data
direct_scraping(m, d) ==
    IF "requirements" \in m.failing
    THEN warn(d, "Failed to extract requirements")
    ELSE [d EXCEPT !.requirements = d.requirements \o scraped_tables(m.tables)]

\* `any(len(table.find_all("tr")) > 1 for table in tables)`
has_content(tables) == \E i \in 1..Len(tables) : Len(tables[i]) > 1

\* the stub test of parse_bundle_data
is_stub_any_title(m, title) == ~has_content(m.tables)

is_stub(m, title) == ~has_content(m.tables) /\ Contains(str_lower(title), "bundle")

\* what an extraction did besides building its record
NoSteps == [steps |-> <<>>, requests |-> 0, waited |-> 0, elapsed |-> 0, client |-> None]

\* parse_bundle_data(soup, page_title) with the network `net` for the fetch
\* of the canonical page: the outcome and what it did on the way
parse_bundle_data(m, title, net) ==
    LET d == [type |-> "bundle", name |-> title, requirements |-> <<>>,
              parsing_warnings |-> <<>>]
        fetch == client_get_page(WikiClient(WIKI_API_URL), "Bundles", net)
        fetched_steps == [steps |-> <<"fetch">>, requests |-> fetch.requests,
                          waited |-> fetch.waited, elapsed |-> fetch.elapsed,
                          client |-> Some(fetch.client)]
        bundle_header == find_string(fetch.result.html, title)
        scrape(did, data_so_far) ==
            [outcome |-> Returns(direct_scraping(m, data_so_far)),
             did |-> [did EXCEPT !.steps = Append(did.steps, "scrape")]]
    IN  IF "stub page" \in m.failing
        THEN scrape(NoSteps, warn(d, "Failed to check for stub page"))
        ELSE IF ~is_stub(m, title)
        THEN scrape(NoSteps, d)
        ELSE IF ~fetch.result.success
        THEN scrape(fetched_steps, d)
        ELSE IF "main Bundles page" \in m.failing
        THEN scrape(fetched_steps, warn(d, "Failed to fetch main Bundles page"))
        ELSE IF bundle_header = None
        THEN scrape([fetched_steps EXCEPT !.steps = <<"fetch", "lookup">>], d)
        ELSE IF bundle_header[1].table = 0
        THEN scrape([fetched_steps EXCEPT !.steps = <<"fetch", "lookup">>], d)
        ELSE [outcome |->
                  Returns([d EXCEPT !.requirements =
                              listed_rows(fetch.result.html.tables[bundle_header[1].table],
                                          title, <<>>)]),
              did |-> [fetched_steps EXCEPT !.steps = <<"fetch", "lookup", "listing">>]]

\* -------------------------------------------- the single-block extractors
\* data.update(found): the keys an extraction step stores
Update(d, found) ==
    [k \in DOMAIN d \cup DOMAIN found |-> IF k \in DOMAIN found THEN found[k] ELSE d[k]]
\* what the page offers to the extraction step `step`
found_by(m, step) == IF step \in DOMAIN m.fields THEN m.fields[step] ELSE EmptyDict

\* one `try: ... except Exception as e: data["parsing_warnings"].append(...)`
\* block: the step stores what it finds, or its failure becomes a warning
guarded(d, m, step) ==
    IF step \in m.failing
    THEN warn(d, "Failed to extract " \o step)
    ELSE Update(d, found_by(m, step))

\* the blocks of an extractor, one after the other, and its `return data`
RECURSIVE guarded_steps(_, _, _)
guarded_steps(d, m, steps) ==
    IF steps = <<>>
    THEN Returns(d)
    ELSE guarded_steps(guarded(d, m, steps[1]), m, Tail(steps))

base_record(type, title) == [type |-> type, name |-> title, parsing_warnings |-> <<>>]

gift_types == <<"loved", "liked", "neutral", "disliked", "hated">>
\* parse_heart_events(soup): its own catch-all returns the events found so far
parse_heart_events(m) ==
    IF "heart events" \in m.failing
    THEN <<>>
    ELSE GetOr(found_by(m, "heart events"), "heart_events", <<>>)

parse_crop_data(m, title) ==
    guarded_steps(base_record("crop", title), m, <<"infobox data", "sell prices">>)

parse_npc_data(m, title) ==
    LET gifts == guarded_steps(base_record("npc", title), m,
                     <<"infobox data">> \o [i \in 1..Len(gift_types) |-> gift_types[i] \o " gifts"])
        heart_events == parse_heart_events(m)
    IN  IF heart_events = <<>>
        THEN gifts
        ELSE Returns(Update(gifts.returns, [heart_events |-> heart_events]))

parse_fish_data(m, title) ==
    guarded_steps(base_record("fish", title), m, <<"infobox data">>)

parse_recipe_data(m, title) ==
    guarded_steps(base_record("recipe", title), m, <<"infobox data", "products data">>)

parse_quest_data(m, title) ==
    guarded_steps(Update(base_record("quests", title),
                         [story_quests |-> <<>>, special_orders |-> <<>>,
                          qi_special_orders |-> <<>>]),
                  m, <<"quest data">>)

parse_achievement_data(m, title) ==
    guarded_steps(Update(base_record("achievements", title), [achievements |-> <<>>]),
                  m, <<"achievement data">>)

parse_collection_list(m, title, collection_type) ==
    guarded_steps(Update(base_record(collection_type, title), [items |-> <<>>]),
                  m, <<"collection data">>)

parse_generic_item(m, title, item_type) ==
    guarded_steps(base_record(item_type, title), m, <<"infobox data">>)

\* ---------------------------------------------------------- parse_page_data
\* parse_page_data(html, page_title, categories): the outcome and what the
\* extractor did on the way; html stands for the tree BeautifulSoup builds
without_steps(outcome) == [outcome |-> outcome, did |-> NoSteps]

parse_page_data(html, title, categories, net) ==
    LET type == detect_page_type(categories, title)
    IN  IF type = "crop" THEN without_steps(parse_crop_data(html, title))
        ELSE IF type = "npc" THEN without_steps(parse_npc_data(html, title))
        ELSE IF type = "bundle" THEN parse_bundle_data(html, title, net)
        ELSE IF type = "fish" THEN without_steps(parse_fish_data(html, title))
        ELSE IF type = "recipe" THEN without_steps(parse_recipe_data(html, title))
        ELSE IF type = "skill" THEN without_steps(parse_skill_data(html, title))
        ELSE IF type = "quests" THEN without_steps(parse_quest_data(html, title))
        ELSE IF type = "achievements" THEN without_steps(parse_achievement_data(html, title))
        ELSE IF type \in {"artifact", "mineral"}
        THEN IF str_lower(title) \in {"artifacts", "minerals"}
             THEN without_steps(parse_collection_list(html, title, type))
             ELSE without_steps(parse_generic_item(html, title, type))
        ELSE without_steps(parse_generic_item(html, title, type))

\* ------------------------------------------------- the get_page_data tool
MaxExtractions == 2    \* get_page_data calls explored

\* a page as an extractor sees it: the steps that raise on it, its tables
\* (a table is the sequence of its rows), its strings in document order with
\* the table each one lies in (0: none), and what each extraction step finds
Doc(failing, tables, strings, fields) ==
    [failing |-> failing, tables |-> tables, strings |-> strings, fields |-> fields]
FailingSets(steps) == {{}} \cup {{s} : s \in steps} \cup {steps}
Cell(text, links) == [text |-> text, links |-> links]
Row(th, td) == [th |-> th, td |-> td]

\* a level progression table with both level groups
RecipesLabel == Cell("Crafting Recipes:", <<>>)
ProfessionLabel == Cell("Choose a Profession:", <<>>)
NoCell == Cell("", <<>>)
LevelTable ==
    <<Row(<<"Level 1", "Level 2", "Level 3", "Level 4", "Level 5">>, <<>>),
      Row(<<>>, <<RecipesLabel, RecipesLabel, RecipesLabel, RecipesLabel, ProfessionLabel>>),
      Row(<<>>, <<Cell("Scarecrow", <<"Scarecrow">>), NoCell, NoCell, NoCell,
                  Cell("Rancher Animal products worth 20% more Tiller Crops worth 10% more",
                       <<"Rancher", "Tiller">>)>>),
      Row(<<"Level 6", "Level 7", "Level 8", "Level 9", "Level 10">>, <<>>),
      Row(<<>>, <<RecipesLabel, RecipesLabel, RecipesLabel, RecipesLabel, ProfessionLabel>>),
      Row(<<>>, <<Cell("Coopmaster", <<>>), Cell("Shepherd", <<>>)>>)>>
\* a requirements table of a bundle page
RequirementsTable ==
    <<Row(<<"Item", "Quantity">>, <<>>),
      Row(<<>>, <<Cell(" Parsnip ", <<"Parsnip">>), Cell("x 5", <<>>)>>),
      Row(<<>>, <<Cell("Melon", <<"Melon">>)>>)>>
\* the canonical "Bundles" page: the table of one bundle, and a bundle that
\* is only mentioned in the running text
BundlesListing ==
    Doc({}, <<<<Row(<<"Spring Crops Bundle">>, <<>>),
                Row(<<>>, <<Cell("Parsnip", <<"Parsnip", "Spring">>),
                            Cell("Green Bean", <<" Green Bean ", "Parsnip">>)>>),
                Row(<<>>, <<Cell("Reward: Speed-Gro", <<"Speed-Gro">>)>>)>>>>,
        <<[text |-> "See also the Summer Crops Bundle", table |-> 0],
          [text |-> "spring crops bundle", table |-> 1]>>,
        EmptyDict)

\* the wiki: per title the categories of the page and the documents it may
\* be served as, one per set of failing steps
FieldPages(title, categories, failing_sets, fields) ==
    {[title |-> title, categories |-> categories, html |-> Doc(f, <<>>, <<>>, fields)] :
        f \in failing_sets}
TablePages(title, categories, failing_sets, tables) ==
    {[title |-> title, categories |-> categories, html |-> Doc(f, tables, <<>>, EmptyDict)] :
        f \in failing_sets}
Wiki ==
    FieldPages("Parsnip", <<"Crops">>, FailingSets({"infobox data", "sell prices"}),
               [k \in {"infobox data"} |-> [seasons |-> <<"Spring">>]])
    \cup FieldPages("Abigail", <<"Villagers">>, {{}, {"loved gifts", "heart events"}},
                    [k \in {"heart events"} |-> [heart_events |-> <<"Two Hearts">>]])
    \cup FieldPages("Tuna", <<"Fish">>, {{"infobox data"}}, EmptyDict)
    \cup FieldPages("Fried Egg", <<"Cooking">>, {{"products data"}}, EmptyDict)
    \cup FieldPages("Quests", <<>>, {{"quest data"}}, EmptyDict)
    \cup FieldPages("Achievements", <<>>, {{"achievement data"}}, EmptyDict)
    \cup FieldPages("Artifacts", <<"Artifacts">>, {{"collection data"}}, EmptyDict)
    \cup FieldPages("Dwarf Scroll", <<"Artifacts">>, {{}}, EmptyDict)
    \cup FieldPages("Hardwood", <<"Resources">>, {{"infobox data"}}, EmptyDict)
    \cup TablePages("Farming", <<"Skills">>,
                    {{}, {"level progression table"}, {"level rows"}}, <<LevelTable>>)
    \cup TablePages("Luck", <<"Skills">>, {{"level rows"}}, <<>>)
    \cup TablePages("Spring Crops Bundle", <<"Bundles">>,
                    {{}, {"stub page"}, {"main Bundles page"}, {"requirements"}}, <<>>)
    \cup TablePages("Summer Crops Bundle", <<"Bundles">>, {{}},
                    <<<<Row(<<"Summer Crops Bundle">>, <<>>)>>>>)
    \cup TablePages("Pantry", <<"Bundles">>, {{}}, <<>>)
    \cup TablePages("Quality Crops Bundle", <<"Bundles">>, {{}}, <<RequirementsTable>>)
    \cup {[title |-> "Bundles", categories |-> <<"Bundles">>, html |-> BundlesListing]}
WikiTitles == {p.title : p \in Wiki}
\* the JSON documents the API may answer a request for `title` with
ServedFor(title) ==
    {[error |-> "missingtitle"]}
        \cup {[parse |-> [text |-> p.html, categories |-> p.categories]] :
                 p \in {w \in Wiki : w.title = title}}

\* get_page_data(page_title) is called: wiki_client.get_page looks the title
\* up in its cache and, on a miss, enters wait_if_needed
GetPageData(t, title) ==
    /\ pc[t] \in {"idle", "done"}
    /\ hits + misses < MaxExtractions
    /\ LET r == get(cache, hits, misses, codes(title))
       IN  /\ cache' = r.cache
           /\ hits' = r.hits
           /\ misses' = r.misses
           /\ result' = [result EXCEPT ![t] = r.ret]
           /\ from_cache' = [from_cache EXCEPT ![t] = r.ret # None]
           /\ pc' = [pc EXCEPT ![t] = IF r.ret # None THEN "parse" ELSE "wait"]
           /\ wake' = [wake EXCEPT ![t] = now + client_wait_time(last_request_time, now)]
    /\ page_name' = title
    /\ page_title' = [page_title EXCEPT ![t] = codes(title)]
    /\ running' = [running EXCEPT ![t] = Some("get_page_data")]
    /\ thrown' = [thrown EXCEPT ![t] = None]
    /\ page_type' = None
    /\ page_categories' = <<>>
    /\ markup' = None
    /\ UNCHANGED <<now, ttl_seconds, max_size, directVars, limiterVars, limiterLog,
                   attempt, last_exception, requests_made, limiter_calls, delays, raised,
                   data, got_error, cache_at_call, fetched, forced, network_error,
                   escaped, searchVars, events, local>>

\* wait_if_needed of the shared client returns: time.sleep is over and
\* last_request_time is updated
PageWait(t) ==
    /\ pc[t] = "wait"
    /\ now' = wake[t]
    /\ last_request_time' = wake[t]
    /\ pc' = [pc EXCEPT ![t] = "request"]
    /\ UNCHANGED <<cacheVars, directVars, min_interval, lock, limiterLog, wake, callVars,
                   searchVars, classVars>>

\* the API answers the request of the shared client with d; a page that
\* could not be fetched ends the tool call with an error text
PageAnswered(t, d) ==
    /\ pc[t] = "request"
    /\ cache' = cache_after_response(cache, page_title[t], d)
    /\ result' = [result EXCEPT ![t] = Some(get_page_result(page_name, d))]
    /\ pc' = [pc EXCEPT ![t] = IF "error" \in DOMAIN d THEN "done" ELSE "parse"]
    /\ UNCHANGED <<now, ttl_seconds, max_size, hits, misses, directVars, limiterVars,
                   limiterLog, wake, page_title, attempt, last_exception, requests_made,
                   limiter_calls, delays, raised, data, got_error, from_cache,
                   cache_at_call, fetched, forced, running, network_error, escaped,
                   thrown, searchVars, classVars>>

\* what one extraction did, as the log keeps it: the kind of page, the steps
\* of parse_bundle_data, the outbound requests of its own client and the
\* seconds that client waited in its rate limiter; and, for comparison, whether
\* the shared client had the canonical page cached and how long its rate
\* limiter would have made a request wait
extraction(title, type, html, did) ==
    [type |-> type,
     stub |-> ~has_content(html.tables),
     check_failed |-> "stub page" \in html.failing,
     bundle_in_title |-> Contains(str_lower(title), "bundle"),
     steps |-> did.steps, requests |-> did.requests, waited |-> did.waited,
     shared_had_listing |-> get(cache, hits, misses, codes("Bundles")).ret # None,
     shared_would_wait |-> wait_time(now)]

\* parse_page_data runs on the fetched page; net is the network the
\* extractor's own fetch meets.  The tool turns an exception into an error text
PageParse(t, net) ==
    /\ pc[t] = "parse"
    /\ LET page == result[t][1]
           parsed == parse_page_data(page.html, page_name, page.categories, net)
       IN  /\ markup' = Some(page.html)
           /\ page_categories' = page.categories
           /\ page_type' = Some(detect_page_type(page.categories, page_name))
           /\ events' = Append(events, extraction(page_name, page_type'[1], page.html,
                                                  parsed.did))
           /\ now' = now + parsed.did.elapsed
           /\ Leave(t, parsed.outcome)
    /\ UNCHANGED <<cacheVars, directVars, limiterVars, limiterLog, wake, page_title,
                   attempt, last_exception, requests_made, limiter_calls, delays, raised,
                   data, got_error, from_cache, cache_at_call, fetched, forced, running,
                   network_error, escaped, searchVars, page_name, local>>

\* wiki_client = WikiClient(WIKI_API_URL): the defaults of the constructor;
\* a second is the time unit, the interval of the rate limiter is one unit
InitParse ==
    /\ InitCommon
    /\ ttl_seconds = cache_ttl
    /\ max_size = cache_max_size
    /\ min_interval = 1
    /\ query = ""
    /\ page_name = ""
    /\ page_categories = <<>>
    /\ markup = None

\* the networks the extractor's own fetch of "Bundles" may meet
BundlesNetworks == {Down} \cup {Answer(d) : d \in ServedFor("Bundles")}

NextParse ==
    \/ \E t \in ClientThreads, title \in WikiTitles : GetPageData(t, title)
    \/ \E t \in ClientThreads : PageWait(t)
    \/ \E t \in ClientThreads : \E d \in ServedFor(page_name) : PageAnswered(t, d)
    \/ \E t \in ClientThreads, net \in BundlesNetworks : PageParse(t, net)

SpecParse == InitParse /\ [][NextParse]_vars

\* ================================================= properties: extractors
\* parse_page_data has ended for the caller t
Parsed(t) == pc[t] = "done" /\ markup # None
RecordKeys == {"type", "name", "parsing_warnings"}

\* C21 (the claim as stated): for every page type and markup, with any
\* extraction step failing, parse_page_data returns a record without raising,
\* and the record carries type, name and a parsing_warnings list
C21_ExtractorsNeverRaise ==
    \A t \in Threads :
        Parsed(t) =>
            /\ thrown[t] = None
            /\ RecordKeys \subseteq DOMAIN result[t][1]
            /\ result[t][1].type = page_type[1]
            /\ result[t][1].name = page_name

\* C25 (the claim as stated): every bundle page without a table of more than
\* one row is first looked up on the canonical "Bundles" page
C25_EveryStubLooksUpListing ==
    \A i \in 1..Len(events) :
        (events[i].type = "bundle" /\ events[i].stub /\ ~events[i].check_failed) =>
            Head(events[i].steps) = "fetch"

\* C25 (amended): a bundle page without a table of more than one row whose
\* title contains "bundle" in any letter case is, unless the stub check itself
\* fails, first fetched from and looked up on the canonical "Bundles" page, and
\* direct scraping follows only when the fetch or the lookup gave no table; a
\* page whose title does not contain "bundle" is scraped directly
C25_TitledStubLooksUpListing ==
    \A i \in 1..Len(events) :
        events[i].type = "bundle" =>
            /\ (events[i].stub /\ ~events[i].check_failed /\ events[i].bundle_in_title)
                  => /\ Head(events[i].steps) = "fetch"
                     /\ events[i].steps \in {<<"fetch", "lookup", "listing">>,
                                             <<"fetch", "lookup", "scrape">>,
                                             <<"fetch", "scrape">>}
            /\ (~events[i].stub \/ events[i].check_failed \/ ~events[i].bundle_in_title)
                  => events[i].steps = <<"scrape">>

\* a stub page found on the canonical page, and one scraped after a lookup
\* that found no table
C25_Witness ==
    \E i, j \in 1..Len(events) :
        /\ events[i].stub /\ events[i].steps = <<"fetch", "lookup", "listing">>
        /\ events[j].stub /\ events[j].steps = <<"fetch", "lookup", "scrape">>

\* C30: the fetch of the canonical page goes through a client of its own: it
\* makes an outbound request although the shared client has the page cached,
\* it does not wait although the shared rate limiter would make a request
\* wait, and the extraction leaves the cache and the rate limiter of the
\* shared client as they are
C30_FetchThroughFreshClient ==
    /\ [](\A i \in 1..Len(events) :
             "fetch" \in {events[i].steps[k] : k \in 1..Len(events[i].steps)} =>
                 /\ events[i].requests >= 1
                 /\ events[i].waited = 0)
    /\ [][\A t \in Threads :
             (pc[t] = "parse" /\ pc'[t] = "done") =>
                 /\ cache' = cache
                 /\ hits' = hits
                 /\ misses' = misses
                 /\ last_request_time' = last_request_time]_vars

\* a stub extraction that made a request of its own and did not wait, while
\* the shared client had "Bundles" cached and its limiter would have waited
C30_Witness ==
    \E i \in 1..Len(events) :
        /\ events[i].steps # <<>>
        /\ Head(events[i].steps) = "fetch"
        /\ events[i].shared_had_listing
        /\ events[i].shared_would_wait > 0
        /\ events[i].requests >= 1
        /\ events[i].waited = 0

\* ------------------------------------------- parse_skill_data on its own
MaxCells == 3          \* cells of the content row that is varied

\* the cells a content row is built from
RowCells ==
    {NoCell,
     Cell("Rancher Animal products worth 20% more", <<"Rancher">>),
     Cell(" Tiller ", <<>>),
     Cell("Scarecrow", <<"Scarecrow">>)}
ContentRows == UNION {{Row(<<>>, td) : td \in [1..n -> RowCells]} : n \in 1..MaxCells}
LabelRows ==
    {Row(<<>>, <<RecipesLabel, ProfessionLabel>>),
     Row(<<>>, <<ProfessionLabel, ProfessionLabel>>)}
\* a level table of two groups of two levels each, one content row per group
TwoGroups(labels, first, second) ==
    <<Row(<<"Level 1", "Level 5">>, <<>>), labels, first,
      Row(<<"Level 6", "Level 10">>, <<>>), labels, second>>
PlainRow == Row(<<>>, <<Cell("Scarecrow", <<"Scarecrow">>), Cell("Rancher", <<>>)>>)
SkillTables ==
    {TwoGroups(labels, row, PlainRow) : labels \in LabelRows, row \in ContentRows}
        \cup {TwoGroups(labels, PlainRow, row) : labels \in LabelRows, row \in ContentRows}

\* parse_skill_data(soup, "Farming") on the page given at the start
ParseSkill(t) ==
    /\ pc[t] = "idle"
    /\ Leave(t, parse_skill_data(markup[1], page_name))
    /\ UNCHANGED <<now, cacheVars, directVars, limiterVars, limiterLog, wake, page_title,
                   attempt, last_exception, requests_made, limiter_calls, delays, raised,
                   data, got_error, from_cache, cache_at_call, fetched, forced, running,
                   network_error, escaped, searchVars, classVars>>

InitSkill ==
    /\ InitCommon
    /\ ttl_seconds = 1
    /\ max_size = 1
    /\ min_interval = 1
    /\ query = ""
    /\ page_name = "Farming"
    /\ page_categories = <<>>
    /\ markup \in {Some(Doc({}, <<table>>, <<>>, EmptyDict)) : table \in SkillTables}

NextSkill == \E t \in ClientThreads : ParseSkill(t)

SpecSkill == InitSkill /\ [][NextSkill]_vars

\* ============================================ properties: parse_skill_data
SkillParsed(t) == pc[t] = "done" /\ result[t] # None
\* the table of the page: group g has its header in row 3g-2, its labels in
\* row 3g-1 and its content row in row 3g
SkillTable == markup[1].tables[1]
GroupLevels(g) == IF g = 1 THEN <<1, 5>> ELSE <<6, 10>>
GroupRow(g) == SkillTable[3 * g].td
MarkedColumns(g) ==
    {c \in 1..Len(SkillTable[3 * g - 1].td) :
        Contains(SkillTable[3 * g - 1].td[c].text, "Choose a Profession")}
NonEmpty(cells) == {c \in 1..Len(cells) : str_strip(cells[c].text) # ""}
NamesIn(text) ==
    {profession_keywords[k] : k \in {j \in 1..Len(profession_keywords) :
                                        Contains(text, profession_keywords[j])}}
OnlyProfessions(cells) ==
    /\ NonEmpty(cells) # {}
    /\ \A c \in NonEmpty(cells) : NamesIn(cells[c].text) # {}
RowNames(cells) == UNION {NamesIn(cells[c].text) : c \in NonEmpty(cells)}
\* the professions the record of caller t lists for a level
NamesAt(t, level) ==
    LET professions == result[t][1].professions
    IN  IF level \in DOMAIN professions
        THEN {professions[level][i].name : i \in 1..Len(professions[level])}
        ELSE {}
\* attribution by column index: the level of the column (the last level for a
\* cell beyond the headers), for marked columns only
ColumnLevel(g, c) == IF c <= 2 THEN GroupLevels(g)[c] ELSE GroupLevels(g)[2]
TakenByColumn(g, c) == c \in MarkedColumns(g) \/ (c > 2 /\ MarkedColumns(g) # {})
ByColumn(t, g) ==
    \A level \in {GroupLevels(g)[1], GroupLevels(g)[2]} :
        NamesAt(t, level) =
            UNION {NamesIn(GroupRow(g)[c].text) :
                      c \in {k \in NonEmpty(GroupRow(g)) :
                                ColumnLevel(g, k) = level /\ TakenByColumn(g, k)}}
AtGroupTop(t, g) ==
    /\ NamesAt(t, GroupLevels(g)[2]) = RowNames(GroupRow(g))
    /\ NamesAt(t, GroupLevels(g)[1]) = {}

Locals(key) ==
    [key_lower |-> key, value |-> None, timestamp |-> 0, oldest_key |-> None,
     count |-> 0, result |-> None, raised |-> None]

\* get_page(title) is called: cache.get starts with key_lower = key.lower()
RaceFrame ==
    UNCHANGED <<now, ttl_seconds, max_size, directVars, limiterVars, limiterLog, wake,
                searchVars, page_categories, page_name, page_type, markup, events,
                attempt, last_exception, delays, raised, got_error, forced,
                network_error, escaped, running>>

ConcurrentGetPage(t, title) ==
    /\ pc[t] = "idle"
    /\ page_title' = [page_title EXCEPT ![t] = title]
    /\ cache_at_call' = [cache_at_call EXCEPT ![t] = cache]
    /\ local' = [local EXCEPT ![t] = Locals(Lower(title))]
    /\ pc' = [pc EXCEPT ![t] = "get_contains"]
    /\ UNCHANGED <<cache, hits, misses, requests_made, limiter_calls, data, result,
                   from_cache, fetched, thrown>>
    /\ RaceFrame

\* an exception leaves cache.get: get_page calls it outside its try block,
\* so it leaves get_page as well
GetRaises(t, exc) ==
    /\ local' = [local EXCEPT ![t].raised = Some(exc)]
    /\ thrown' = [thrown EXCEPT ![t] = Some(exc)]
    /\ pc' = [pc EXCEPT ![t] = "done"]
    /\ UNCHANGED <<cache, hits, misses, result>>

\* an exception leaves cache.set, inside the try block of get_page, whose
\* `except Exception` returns the 'Unexpected error' failure
SetRaises(t, exc) ==
    /\ local' = [local EXCEPT ![t].raised = Some(exc)]
    /\ result' = [result EXCEPT ![t] = Some(get_page_except(page_title[t], exc).returns)]
    /\ pc' = [pc EXCEPT ![t] = "done"]
    /\ UNCHANGED <<cache, fetched>>

\* get: `if key_lower in self.cache:`; in the else branch the load of
\* self.misses for `self.misses += 1`
CacheGetContains(t) ==
    /\ pc[t] = "get_contains"
    /\ IF DictHas(cache, local[t].key_lower)
       THEN /\ pc' = [pc EXCEPT ![t] = "get_read"]
            /\ UNCHANGED local
       ELSE /\ pc' = [pc EXCEPT ![t] = "get_miss"]
            /\ local' = [local EXCEPT ![t].count = misses]
    /\ UNCHANGED <<cache, hits, misses, page_title, requests_made, limiter_calls, data,
                   result, from_cache, cache_at_call, fetched, thrown>>
    /\ RaceFrame

\* get: `value, timestamp = self.cache[key_lower]`
CacheGetRead(t) ==
    /\ pc[t] = "get_read"
    /\ IF DictHas(cache, local[t].key_lower)
       THEN /\ local' = [local EXCEPT
                            ![t].value = Some(DictGet(cache, local[t].key_lower).value),
                            ![t].timestamp = DictGet(cache, local[t].key_lower).timestamp]
            /\ pc' = [pc EXCEPT ![t] = "get_age"]
            /\ UNCHANGED <<cache, hits, misses, result, thrown>>
       ELSE GetRaises(t, "KeyError")
    /\ UNCHANGED <<page_title, requests_made, limiter_calls, data,
                   from_cache, cache_at_call, fetched>>
    /\ RaceFrame

\* get: `age_seconds = time.time() - timestamp` and the comparison with
\* ttl_seconds; in the hit branch the load of self.hits for `self.hits += 1`
CacheGetAge(t) ==
    /\ pc[t] = "get_age"
    /\ LET age_seconds == now - local[t].timestamp
       IN  IF age_seconds < ttl_seconds
           THEN /\ local' = [local EXCEPT ![t].count = hits]
                /\ pc' = [pc EXCEPT ![t] = "get_hit"]
           ELSE /\ pc' = [pc EXCEPT ![t] = "get_del"]
                /\ UNCHANGED local
    /\ UNCHANGED <<cache, hits, misses, page_title, requests_made, limiter_calls, data,
                   result, from_cache, cache_at_call, fetched, thrown>>
    /\ RaceFrame

\* get: the store of `self.hits += 1` and `return value`; get_page returns
\* the cached result
CacheGetHit(t) ==
    /\ pc[t] = "get_hit"
    /\ hits' = local[t].count + 1
    /\ result' = [result EXCEPT ![t] = local[t].value]
    /\ from_cache' = [from_cache EXCEPT ![t] = TRUE]
    /\ pc' = [pc EXCEPT ![t] = "done"]
    /\ UNCHANGED <<cache, misses, local, page_title, requests_made, limiter_calls, data,
                   cache_at_call, fetched, thrown>>
    /\ RaceFrame

\* get: `del self.cache[key_lower]` of an expired entry, and the load of
\* self.misses
CacheGetDel(t) ==
    /\ pc[t] = "get_del"
    /\ IF DictHas(cache, local[t].key_lower)
       THEN /\ cache' = DictDel(cache, local[t].key_lower)
            /\ local' = [local EXCEPT ![t].count = misses]
            /\ pc' = [pc EXCEPT ![t] = "get_miss"]
            /\ UNCHANGED <<hits, misses, result, thrown>>
       ELSE GetRaises(t, "KeyError")
    /\ UNCHANGED <<page_title, requests_made, limiter_calls, data,
                   from_cache, cache_at_call, fetched>>
    /\ RaceFrame

\* get: the store of `self.misses += 1` and `return None`; get_page goes on
\* to _make_api_request, which enters wait_if_needed
CacheGetMiss(t) ==
    /\ pc[t] = "get_miss"
    /\ misses' = local[t].count + 1
    /\ from_cache' = [from_cache EXCEPT ![t] = FALSE]
    /\ limiter_calls' = [limiter_calls EXCEPT ![t] = 1]
    /\ pc' = [pc EXCEPT ![t] = "acquire"]
    /\ UNCHANGED <<cache, hits, local, page_title, requests_made, data, result,
                   cache_at_call, fetched, thrown>>
    /\ RaceFrame

\* the API answers with a JSON document: PageNotFoundError and its failure
\* result, or `result = {...}` and the call of cache.set
ConcurrentAnswered(t, d) ==
    /\ pc[t] = "send"
    /\ requests_made' = [requests_made EXCEPT ![t] = @ + 1]
    /\ data' = [data EXCEPT ![t] = Some(d)]
    /\ IF "error" \in DOMAIN d
       THEN /\ result' = [result EXCEPT ![t] = Some(get_page_result(page_title[t], d))]
            /\ pc' = [pc EXCEPT ![t] = "done"]
            /\ UNCHANGED local
       ELSE /\ local' = [local EXCEPT ![t].result = Some(get_page_result(page_title[t], d))]
            /\ pc' = [pc EXCEPT ![t] = "set_check"]
            /\ UNCHANGED result
    /\ UNCHANGED <<cache, hits, misses, page_title, limiter_calls,
                   from_cache, cache_at_call, fetched, thrown>>
    /\ RaceFrame

\* set: `if len(self.cache) >= self.max_size and key_lower not in self.cache:`
CacheSetCheck(t) ==
    /\ pc[t] = "set_check"
    /\ IF Len(cache) >= max_size /\ ~DictHas(cache, local[t].key_lower)
       THEN pc' = [pc EXCEPT ![t] = "set_oldest"]
       ELSE pc' = [pc EXCEPT ![t] = "set_assign"]
    /\ UNCHANGED <<cache, hits, misses, local, page_title, requests_made, limiter_calls,
                   data, result, from_cache, cache_at_call, fetched, thrown>>
    /\ RaceFrame

\* set: `oldest_key = next(iter(self.cache))`
CacheSetOldest(t) ==
    /\ pc[t] = "set_oldest"
    /\ IF cache # <<>>
       THEN /\ local' = [local EXCEPT ![t].oldest_key = Some(cache[1].key)]
            /\ pc' = [pc EXCEPT ![t] = "set_del"]
            /\ UNCHANGED <<cache, result, fetched>>
       ELSE SetRaises(t, "StopIteration")
    /\ UNCHANGED <<hits, misses, page_title, requests_made, limiter_calls,
                   data, from_cache, cache_at_call, thrown>>
    /\ RaceFrame

\* set: `del self.cache[oldest_key]`
CacheSetDel(t) ==
    /\ pc[t] = "set_del"
    /\ IF DictHas(cache, local[t].oldest_key[1])
       THEN /\ cache' = DictDel(cache, local[t].oldest_key[1])
            /\ pc' = [pc EXCEPT ![t] = "set_assign"]
            /\ UNCHANGED <<local, result, fetched>>
       ELSE SetRaises(t, "KeyError")
    /\ UNCHANGED <<hits, misses, page_title, requests_made, limiter_calls,
                   data, from_cache, cache_at_call, thrown>>
    /\ RaceFrame

\* set: `self.cache[key_lower] = (value, time.time())`; get_page returns result
CacheSetAssign(t) ==
    /\ pc[t] = "set_assign"
    /\ cache' = DictPut(cache, local[t].key_lower, local[t].result[1], now)
    /\ fetched' = [fetched EXCEPT ![local[t].key_lower] = local[t].result]
    /\ result' = [result EXCEPT ![t] = local[t].result]
    /\ pc' = [pc EXCEPT ![t] = "done"]
    /\ UNCHANGED <<hits, misses, local, page_title, requests_made, limiter_calls,
                   data, from_cache, cache_at_call, thrown>>
    /\ RaceFrame

\* what earlier get_page calls left in the cache: results fetched at
\* construction time, for pairwise distinct keys, at most max_size of them
StoredAtStart(key) ==
    [key |-> key,
     value |-> get_page_result(key, CHOOSE d \in Responses : "parse" \in DOMAIN d /\ d.parse \in Pages),
     timestamp |-> StartTime]
KeySeqs(n) ==
    {ks \in UNION {[1..m -> CacheKeys] : m \in 0..n} :
        \A i, j \in DOMAIN ks : i # j => ks[i] # ks[j]}
CachesAtStart(n) == {[i \in DOMAIN ks |-> StoredAtStart(ks[i])] : ks \in KeySeqs(n)}

\* one WikiClient shared by the callers, each of which calls get_page once
InitConcurrent ==
    /\ InitClock
    /\ InitNoText
    /\ ttl_seconds \in 1..MaxTtl
    /\ max_size \in 1..MaxCap
    /\ min_interval = 1
    /\ cache \in CachesAtStart(max_size)

NextConcurrent ==
    \/ \E t \in Threads, title \in PageTitles : ConcurrentGetPage(t, title)
    \/ \E t \in Threads : CacheGetContains(t)
    \/ \E t \in Threads : CacheGetRead(t)
    \/ \E t \in Threads : CacheGetAge(t)
    \/ \E t \in Threads : CacheGetHit(t)
    \/ \E t \in Threads : CacheGetDel(t)
    \/ \E t \in Threads : CacheGetMiss(t)
    \/ \E t \in Threads : LimiterAcquire(t)
    \/ \E t \in Threads : LimiterCheck(t)
    \/ \E t \in Threads : LimiterWake(t)
    \/ \E t \in Threads : LimiterUpdate(t, "send")
    \/ \E t \in Threads, d \in Responses : ConcurrentAnswered(t, d)
    \/ \E t \in Threads : CacheSetCheck(t)
    \/ \E t \in Threads : CacheSetOldest(t)
    \/ \E t \in Threads : CacheSetDel(t)
    \/ \E t \in Threads : CacheSetAssign(t)
    \/ Tick(EndTime)

SpecConcurrent == InitConcurrent /\ [][NextConcurrent]_vars

\* ================================== properties: concurrent get_page callers
\* C22: whatever the interleaving of the callers, no statement of
\* WikiCache.get or WikiCache.set raises and the cache never holds more than
\* max_size entries
C22_CacheSafeUnderConcurrency ==
    /\ Len(cache) <= max_size
    /\ \A t \in Threads : local[t] # None => local[t].raised = None

\* t and u called get_page for the same title while nothing was cached under
\* it, both missed the cache, both sent a request and both were answered
\* with a page
BothFetched(t, u) ==
    /\ t # u
    /\ pc[t] = "done" /\ pc[u] = "done"
    /\ page_title[t] = page_title[u]
    /\ ~DictHas(cache_at_call[t], Lower(page_title[t]))
    /\ ~DictHas(cache_at_call[u], Lower(page_title[u]))
    /\ requests_made[t] = 1 /\ requests_made[u] = 1
    /\ data[t] # None /\ "error" \notin DOMAIN data[t][1]
    /\ data[u] # None /\ "error" \notin DOMAIN data[u][1]

\* C23: two concurrent get_page calls for the same uncached title that both
\* fetched the page both return a success result, and the cache then holds
\* exactly one entry for the title
C23_BothFetchersSucceed ==
    \A t, u \in Threads :
        BothFetched(t, u) =>
            /\ thrown[t] = None /\ thrown[u] = None
            /\ result[t] # None /\ result[t][1].success
            /\ result[u] # None /\ result[u][1].success
            /\ Cardinality({i \in 1..Len(cache) : cache[i].key = Lower(page_title[t])}) = 1

====
